---- MODULE Spec2Model ----
(***************************************************************************)
(* CursedVM (src/main.js): the interpreter as a state machine.             *)
(*                                                                         *)
(* Representation of machine words.  A 32-bit cell is written as the       *)
(* two's-complement integer that has the same 32 bits, so every cell is a  *)
(* number in MinInt32..MaxInt32.  The signed reading of a cell (getInt32)  *)
(* is the number itself; the unsigned reading (getUint32) of a cell c is   *)
(* c when c >= 0 and c + 2^32 when c < 0.  Operations on the unsigned      *)
(* reading (ULess, AddrOf, ...) are computed on the cell without ever      *)
(* leaving the 32-bit range.                                               *)
(***************************************************************************)
EXTENDS Integers, Sequences, FiniteSets, TLC

MaxInt32 == 2147483647
MinInt32 == (-2147483647) - 1

\* 2^n for 0 <= n <= 30
RECURSIVE Pow2(_)
Pow2(n) == IF n = 0 THEN 1 ELSE 2 * Pow2(n - 1)

\* the low 31 bits of a cell, as a natural number
Low31(w) == IF w >= 0 THEN w ELSE w - MinInt32

\* bit 31 of a cell
Bit31(w) == IF w < 0 THEN 1 ELSE 0

\* bits lo .. lo+n-1 of a cell (lo + n <= 31)
Bits(w, lo, n) == (Low31(w) \div Pow2(lo)) % Pow2(n)

\* (a + b) mod 2^32 on cells: DataView.setInt32 / setUint32 of a sum
WrapAdd(a, b) ==
    IF a >= 0 /\ b >= 0
    THEN (IF a > MaxInt32 - b THEN (a + MinInt32) + (b + MinInt32) ELSE a + b)
    ELSE IF a < 0 /\ b < 0
    THEN (IF a < MinInt32 - b THEN (a - MinInt32) + (b - MinInt32) ELSE a + b)
    ELSE a + b

\* (-a) mod 2^32 on cells
WrapNeg(a) == IF a = MinInt32 THEN MinInt32 ELSE 0 - a

\* (a - b) mod 2^32 on cells
WrapSub(a, b) == IF b = MinInt32 THEN WrapAdd(a, MinInt32) ELSE WrapAdd(a, 0 - b)

\* the unsigned readings of two cells compared: u(a) < u(b)
ULess(a, b) ==
    IF (a < 0) = (b < 0) THEN a < b ELSE b < 0

\* sign-extension of a 16-bit immediate: DataView.setInt16 / getInt16
SignExtend16(imm) == IF imm >= 32768 THEN imm - 65536 ELSE imm

(***************************************************************************)
(* JavaScript numbers.  Inside one instruction the handlers compute on JS  *)
(* numbers (IEEE-754 doubles).  A number is kept exactly, as               *)
(*     (-1)^neg * (m / d) * 2^e                                            *)
(* with m, d naturals (d = 1 except for the result of a division that is   *)
(* not a dyadic number), or as an infinity or NaN.  Every operator below   *)
(* is exact; an operand outside the range of the evaluator's integers     *)
(* evaluates to Undefined, an error, instead of yielding a wrong number.   *)
(***************************************************************************)
Undefined == CHOOSE x \in {} : TRUE

RECURSIVE BitLen(_)
BitLen(m) == IF m = 0 THEN 0 ELSE 1 + BitLen(m \div 2)

NumNaN == [cls |-> "nan", neg |-> FALSE, m |-> 0, e |-> 0, d |-> 1]
NumInf(neg) == [cls |-> "inf", neg |-> neg, m |-> 0, e |-> 0, d |-> 1]
NumZero(neg) == [cls |-> "zero", neg |-> neg, m |-> 0, e |-> 0, d |-> 1]

\* m * 2^e with the trailing zero bits of m moved into e
RECURSIVE NumFin(_, _, _)
NumFin(neg, m, e) ==
    IF m = 0 THEN NumZero(neg)
    ELSE IF m % 2 = 0 THEN NumFin(neg, m \div 2, e + 1)
    ELSE [cls |-> "fin", neg |-> neg, m |-> m, e |-> e, d |-> 1]

NumNegate(a) == [a EXCEPT !.neg = ~a.neg]

\* the number a signed 32-bit cell stands for (getInt32)
IntToNum(c) ==
    IF c = MinInt32 THEN NumFin(TRUE, 1, 31)
    ELSE IF c < 0 THEN NumFin(TRUE, 0 - c, 0)
    ELSE NumFin(FALSE, c, 0)

\* m * 2^k, an error when it leaves the 31 bits
ShiftLeft(m, k) ==
    IF m = 0 THEN 0
    ELSE IF k < 0 \/ BitLen(m) + k > 31 THEN Undefined
    ELSE m * Pow2(k)

\* floor(m / 2^k)
ShiftRight(m, k) == IF k > 30 THEN 0 ELSE m \div Pow2(k)

\* m / 2^k rounded to the nearest integer, ties to even
RoundShift(m, k) ==
    IF k <= 0 THEN ShiftLeft(m, 0 - k)
    ELSE IF k > 31 THEN 0
    ELSE IF k = 31 THEN (IF m > Pow2(30) THEN 1 ELSE 0)
    ELSE LET q == m \div Pow2(k)
             r == m % Pow2(k)
             half == Pow2(k - 1)
         IN  IF r > half \/ (r = half /\ q % 2 = 1) THEN q + 1 ELSE q

\* |a| < |b| for finite non-zero dyadic a, b
MagLess(a, b) ==
    LET ta == a.e + BitLen(a.m)
        tb == b.e + BitLen(b.m)
        lo == IF a.e < b.e THEN a.e ELSE b.e
    IN  IF ta # tb THEN ta < tb
        ELSE ShiftLeft(a.m, a.e - lo) < ShiftLeft(b.m, b.e - lo)

\* a < b on JS numbers (false when either is NaN)
NumLess(a, b) ==
    IF a.cls = "nan" \/ b.cls = "nan" THEN FALSE
    ELSE IF a.cls = "zero" /\ b.cls = "zero" THEN FALSE
    ELSE IF a.cls = "zero" THEN ~b.neg
    ELSE IF b.cls = "zero" THEN a.neg
    ELSE IF a.neg # b.neg THEN a.neg
    ELSE IF a.cls = "inf" /\ b.cls = "inf" THEN FALSE
    ELSE IF a.cls = "inf" THEN a.neg
    ELSE IF b.cls = "inf" THEN ~b.neg
    ELSE IF a.neg THEN MagLess(b, a) ELSE MagLess(a, b)

\* a == b on JS numbers (NaN differs from everything, -0 equals +0)
NumEq(a, b) ==
    IF a.cls = "nan" \/ b.cls = "nan" THEN FALSE
    ELSE IF a.cls = "zero" \/ b.cls = "zero" THEN a.cls = b.cls
    ELSE a = b

\* !a on a JS number
NumFalsy(a) == a.cls = "zero" \/ a.cls = "nan"

\* a + b
NumAdd(a, b) ==
    IF a.cls = "nan" \/ b.cls = "nan" THEN NumNaN
    ELSE IF a.cls = "inf" /\ b.cls = "inf" THEN (IF a.neg = b.neg THEN a ELSE NumNaN)
    ELSE IF a.cls = "inf" THEN a
    ELSE IF b.cls = "inf" THEN b
    ELSE IF a.cls = "zero" /\ b.cls = "zero" THEN NumZero(a.neg /\ b.neg)
    ELSE IF a.cls = "zero" THEN b
    ELSE IF b.cls = "zero" THEN a
    ELSE LET lo == IF a.e < b.e THEN a.e ELSE b.e
             x == ShiftLeft(a.m, a.e - lo)
             y == ShiftLeft(b.m, b.e - lo)
         IN  IF a.neg = b.neg
             THEN (IF x > MaxInt32 - y THEN Undefined ELSE NumFin(a.neg, x + y, lo))
             ELSE IF x = y THEN NumZero(FALSE)
             ELSE IF x > y THEN NumFin(a.neg, x - y, lo)
             ELSE NumFin(b.neg, y - x, lo)

\* a - b
NumSub(a, b) == NumAdd(a, NumNegate(b))

\* a * b
NumMul(a, b) ==
    LET neg == (a.neg # b.neg)
    IN  IF a.cls = "nan" \/ b.cls = "nan" THEN NumNaN
        ELSE IF a.cls = "inf" \/ b.cls = "inf"
        THEN (IF a.cls = "zero" \/ b.cls = "zero" THEN NumNaN ELSE NumInf(neg))
        ELSE IF a.cls = "zero" \/ b.cls = "zero" THEN NumZero(neg)
        ELSE IF BitLen(a.m) + BitLen(b.m) > 31 THEN Undefined
        ELSE NumFin(neg, a.m * b.m, a.e + b.e)

RECURSIVE Gcd(_, _)
Gcd(x, y) == IF y = 0 THEN x ELSE Gcd(y, x % y)

\* a / b: never an error in JavaScript; a zero divisor gives an infinity or NaN
NumDiv(a, b) ==
    LET neg == (a.neg # b.neg)
    IN  IF a.cls = "nan" \/ b.cls = "nan" THEN NumNaN
        ELSE IF a.cls = "inf" THEN (IF b.cls = "inf" THEN NumNaN ELSE NumInf(neg))
        ELSE IF b.cls = "inf" THEN NumZero(neg)
        ELSE IF b.cls = "zero" THEN (IF a.cls = "zero" THEN NumNaN ELSE NumInf(neg))
        ELSE IF a.cls = "zero" THEN NumZero(neg)
        ELSE LET g == Gcd(a.m, b.m)
             IN  [cls |-> "fin", neg |-> neg, m |-> a.m \div g,
                  e |-> a.e - b.e, d |-> b.m \div g]

\* a % b: the remainder with the sign of the dividend; NaN for a zero divisor
NumMod(a, b) ==
    IF a.cls = "nan" \/ b.cls = "nan" THEN NumNaN
    ELSE IF a.cls = "inf" \/ b.cls = "zero" THEN NumNaN
    ELSE IF b.cls = "inf" \/ a.cls = "zero" THEN a
    ELSE LET lo == IF a.e < b.e THEN a.e ELSE b.e
             x == ShiftLeft(a.m, a.e - lo)
             y == ShiftLeft(b.m, b.e - lo)
         IN  NumFin(a.neg, x % y, lo)

\* ToInt32 / ToUint32 of a JS number, as a cell: DataView.setInt32 / setUint32
RECURSIVE WrapDouble(_, _)
WrapDouble(c, k) == IF k = 0 THEN c ELSE WrapDouble(WrapAdd(c, c), k - 1)

ToInt32(a) ==
    IF a.cls # "fin" THEN 0
    ELSE LET mag == IF a.e >= 0
                    THEN (IF a.e >= 32 THEN 0
                          ELSE WrapDouble(a.m \div a.d, a.e) +
                               (IF a.d = 1 THEN 0 ELSE ShiftLeft(a.m % a.d, a.e) \div a.d))
                    ELSE (IF a.d = 1 THEN ShiftRight(a.m, 0 - a.e)
                          ELSE a.m \div ShiftLeft(a.d, 0 - a.e))
         IN  IF a.neg THEN WrapNeg(mag) ELSE mag

\* the bits of a binary32 from sign, biased exponent and fraction
F32Bits(neg, biased, frac) ==
    LET low == biased * Pow2(23) + frac
    IN  IF neg THEN low + MinInt32 ELSE low

F32Inf(neg) == F32Bits(neg, 255, 0)
F32NaN == F32Bits(FALSE, 255, Pow2(22))

\* a finite dyadic m * 2^e (m > 0) rounded to binary32, ties to even
F32Round(neg, m, e) ==
    LET nb == BitLen(m)
        top == e + nb - 1
    IN  IF top > 127 THEN F32Inf(neg)
        ELSE IF top >= -126
        THEN LET q == RoundShift(m, nb - 24)
             IN  IF q = Pow2(24)
                 THEN (IF top + 1 > 127 THEN F32Inf(neg) ELSE F32Bits(neg, top + 128, 0))
                 ELSE F32Bits(neg, top + 127, q - Pow2(23))
        ELSE F32Bits(neg, 0, RoundShift(m, (-149) - e))

\* a JS number rounded to binary32: DataView.setFloat32
F32Encode(a) ==
    IF a.cls = "nan" THEN F32NaN
    ELSE IF a.cls = "inf" THEN F32Inf(a.neg)
    ELSE IF a.cls = "zero" THEN F32Bits(a.neg, 0, 0)
    ELSE IF a.d = 1 THEN F32Round(a.neg, a.m, a.e)
    ELSE \* a quotient: 25 or more quotient bits and a sticky bit decide the rounding
         LET k == 29 - BitLen(a.m)
             q == (a.m * Pow2(k)) \div a.d
         IN  IF BitLen(q) < 25 \/ a.e - k + BitLen(q) - 1 < -126 THEN Undefined
             ELSE F32Round(a.neg, 2 * q + 1, a.e - k - 1)

\* the number a binary32 stands for: DataView.getFloat32
F32Decode(bits) ==
    LET neg == bits < 0
        biased == Bits(bits, 23, 8)
        frac == Bits(bits, 0, 23)
    IN  IF biased = 255 THEN (IF frac = 0 THEN NumInf(neg) ELSE NumNaN)
        ELSE IF biased = 0 THEN NumFin(neg, frac, -149)
        ELSE NumFin(neg, Pow2(23) + frac, biased - 150)

\* binary32 of a small integer (used to write float literals)
F32OfInt(n) == F32Encode(IntToNum(n))

(***************************************************************************)
(* Values (class VMObject and its subclasses).  A Value is a record        *)
(*   type   : the type code (VMObject.TYPE_NULL ..)                         *)
(*   value  : the 32-bit cell of an Int, Float (binary32 bits) or Ptr      *)
(*   memory : the region a Ptr points into ("" otherwise): "memory",       *)
(*            "stack", "callStack" or "irs", or "number" when the memory   *)
(*            field of the VMPtr holds a number instead of a region        *)
(*   ext    : the host value an Ext wraps; the number in the memory field  *)
(*            of a VMPtr whose memory is "number"; HostUndefined otherwise *)
(*   id     : the identity of the JS object (compared by c.same)           *)
(***************************************************************************)
TYPE_NULL == 0
TYPE_INT == 1
TYPE_FLOAT == 2
TYPE_PTR == 3
TYPE_EXT == 4

isTypeNumeric(type) == type = TYPE_INT \/ type = TYPE_FLOAT

isTypeNumericOrPtr(type) == type = TYPE_INT \/ type = TYPE_FLOAT \/ type = TYPE_PTR

\* Host (JavaScript) values: what the environment holds and what Ext wraps.
\*   kind : "undefined", "null", "number", "string", "object", "function"
\*          or "envfunction" (an instance of VMEnvFunction)
\*   num  : the number of a "number"
\*   str  : the bytes of a "string"
\*   name : which object or function it is
\*   args : VMEnvFunction.args
HostValue(kind, num, str, name, args) ==
    [kind |-> kind, num |-> num, str |-> str, name |-> name, args |-> args]

HostUndefined == HostValue("undefined", NumZero(FALSE), <<>>, "", 0)
HostNull == HostValue("null", NumZero(FALSE), <<>>, "", 0)
HostNumber(num) == HostValue("number", num, <<>>, "", 0)
HostString(str) == HostValue("string", NumZero(FALSE), str, "", 0)
HostObject(name) == HostValue("object", NumZero(FALSE), <<>>, name, 0)
HostFunction(name) == HostValue("function", NumZero(FALSE), <<>>, name, 0)
VMEnvFunction(name, args) == HostValue("envfunction", NumZero(FALSE), <<>>, name, args)

VMNull(id) ==
    [type |-> TYPE_NULL, value |-> 0, memory |-> "", ext |-> HostUndefined, id |-> id]
VMInt(value, id) ==
    [type |-> TYPE_INT, value |-> value, memory |-> "", ext |-> HostUndefined, id |-> id]
VMFloat(value, id) ==
    [type |-> TYPE_FLOAT, value |-> value, memory |-> "", ext |-> HostUndefined, id |-> id]
VMPtr(memory, value, id) ==
    [type |-> TYPE_PTR, value |-> value, memory |-> memory, ext |-> HostUndefined,
     id |-> id]
VMExt(ext, id) ==
    [type |-> TYPE_EXT, value |-> 0, memory |-> "", ext |-> ext, id |-> id]

\* two Values with the same tag, the same raw bits, the same region and the
\* same host handle (everything but the identity of the JS object)
SameValue(a, b) ==
    a.type = b.type /\ a.value = b.value /\ a.memory = b.memory /\ a.ext = b.ext

(***************************************************************************)
(* Register numbers and region sizes.                                      *)
(***************************************************************************)
NUM_REGISTERS == 32
REG_ZERO == 0
REG_COMP == 1
REG_PC == 2
REG_P0 == 24
REG_P1 == 25
REG_IRSP == 26
REG_IPOP == 27
REG_IPTR == 28
REG_SP == 29
REG_PUSH == 30
REG_POP == 31

MAIN_MEMORY_SIZE == 16777216
STACK_SIZE == 65536
CALL_STACK_SIZE == 65536
IRS_SIZE == 65536

\* the size of a region (VMIntMemory.size / VMObjectMemory.size)
RegionSize(mem) ==
    CASE mem = "memory" -> MAIN_MEMORY_SIZE
      [] mem = "stack" -> STACK_SIZE
      [] mem = "callStack" -> CALL_STACK_SIZE
      [] mem = "irs" -> IRS_SIZE

(***************************************************************************)
(* The machine: the fields of a VM object, with err the flag "an exception *)
(* is propagating out of the call in progress".  A word region is the      *)
(* function from the addresses of its non-zero cells to their contents;    *)
(* the data stack is the function from the addresses written since the     *)
(* last clear() to the Values there, every other cell a holding the Null   *)
(* object clear() made for it (identity stackBase + a).                    *)
(***************************************************************************)
Throw(m) == [m EXCEPT !.err = TRUE]

\* a region after clear()
EmptyRegion == [a \in {} |-> 0]

\* the word regions of a machine, by name
IntRegion(m, mem) ==
    CASE mem = "memory" -> m.memory
      [] mem = "callStack" -> m.callStack
      [] mem = "irs" -> m.irs

\* a word region with cell addr set to num (Int32Array element store)
IntStore(data, addr, num) ==
    IF num = 0
    THEN [a \in (DOMAIN data) \ {addr} |-> data[a]]
    ELSE [a \in (DOMAIN data) \cup {addr} |-> IF a = addr THEN num ELSE data[a]]

IntLoad(data, addr) == IF addr \in DOMAIN data THEN data[addr] ELSE 0

StackLoad(m, addr) ==
    IF addr \in DOMAIN m.stack THEN m.stack[addr] ELSE VMNull(m.stackBase + addr)

\* the unsigned reading of cell c plus a signed offset in -1..1, when that is
\* an address below 2^31, and -1 otherwise
AddrOf(c, offset) ==
    IF c < 0 THEN -1
    ELSE IF offset > 0 /\ c > MaxInt32 - offset THEN -1
    ELSE IF c + offset < 0 THEN -1
    ELSE c + offset

\* VMIntMemory.read / VMObjectMemory.read through VMPtr.read(offset):
\* [err, num, obj], num a cell of a word region, obj a Value of the stack
PtrRead(m, ptr, offset) ==
    LET at(addr) ==
            IF ptr.memory = "number" \/ addr < 0 \/ addr >= RegionSize(ptr.memory)
            THEN [err |-> TRUE, num |-> 0, obj |-> VMNull(0)]
            ELSE IF ptr.memory = "stack"
            THEN [err |-> FALSE, num |-> 0, obj |-> StackLoad(m, addr)]
            ELSE [err |-> FALSE, num |-> IntLoad(IntRegion(m, ptr.memory), addr),
                  obj |-> VMNull(0)]
    IN  at(AddrOf(ptr.value, offset))

\* a machine with word region mem replaced
WithIntRegion(m, mem, data) ==
    CASE mem = "memory" -> [m EXCEPT !.memory = data]
      [] mem = "callStack" -> [m EXCEPT !.callStack = data]
      [] mem = "irs" -> [m EXCEPT !.irs = data]

\* VMPtr.write(0, num) of a number: VMIntMemory.write stores it,
\* VMObjectMemory.write refuses what is no VMObject
PtrWriteNum(m, ptr, num) ==
    LET at(addr) ==
            IF ptr.memory = "number" \/ addr < 0 \/ addr >= RegionSize(ptr.memory)
            THEN Throw(m)
            ELSE IF ptr.memory = "stack" THEN Throw(m)
            ELSE WithIntRegion(m, ptr.memory,
                               IntStore(IntRegion(m, ptr.memory), addr, num))
    IN  at(AddrOf(ptr.value, 0))

\* VMPtr.write(0, obj) of a Value: VMObjectMemory.write stores it; an
\* Int32Array element store of an object stores ToInt32(NaN) = 0
PtrWriteObj(m, ptr, obj) ==
    LET at(addr) ==
            IF ptr.memory = "number" \/ addr < 0 \/ addr >= RegionSize(ptr.memory)
            THEN Throw(m)
            ELSE IF ptr.memory = "stack"
            THEN [m EXCEPT !.stack =
                     [a \in (DOMAIN m.stack) \cup {addr} |->
                         IF a = addr THEN obj ELSE m.stack[a]]]
            ELSE WithIntRegion(m, ptr.memory,
                               IntStore(IntRegion(m, ptr.memory), addr, 0))
    IN  at(AddrOf(ptr.value, 0))

\* VM.exitValue: undefined, the number of exit.i or the object of exit.r
ExitNumber(num) == [kind |-> "number", num |-> num, obj |-> VMNull(0)]
ExitObject(obj) == [kind |-> "object", num |-> 0, obj |-> obj]
ExitUndefined == [kind |-> "undefined", num |-> 0, obj |-> VMNull(0)]

\* VM.create of an object that is kept: the machine with one identity used
Created(m) == [m EXCEPT !.nextId = @ + 1]

(***************************************************************************)
(* The stacks (VM.stackPush .. VM.irsPop).  A function that returns a      *)
(* value returns [m |-> the machine after it, v or num |-> the value].     *)
(***************************************************************************)
\* VMRegisters.setPc / setIrsp / setSp: only a Ptr may be written
setPtrRegister(m, num, obj) ==
    IF obj.type # TYPE_PTR THEN Throw(m)
    ELSE [m EXCEPT !.registers[num] = obj]

\* a variant of stackPush that moves SP before it stores
stackPushPreIncrement(m, obj) ==
    LET written(sp, m1) ==
            IF m1.err THEN m1 ELSE setPtrRegister(Created(m1), REG_SP, sp)
        moved(sp) == written(sp, PtrWriteObj(m, sp, obj))
    IN  moved(VMPtr("stack", WrapAdd(m.registers[REG_SP].value, 1), m.nextId))

stackPush(m, obj) ==
    LET written(sp, m1) ==
            IF m1.err THEN m1
            ELSE setPtrRegister(Created(m1), REG_SP,
                                VMPtr("stack", WrapAdd(sp.value, 1), m1.nextId))
    IN  written(m.registers[REG_SP], PtrWriteObj(m, m.registers[REG_SP], obj))

\* a variant of stackPop that gives Null when the data stack is empty
stackPopEmptyNull(m) ==
    LET result(m1, r) == [m |-> IF r.err THEN Throw(m1) ELSE m1, v |-> r.obj]
        moved(sp, m1) == result(m1, PtrRead(m1, sp, 0))
        dec(sp) == moved(sp, setPtrRegister(Created(m), REG_SP, sp))
    IN  IF m.registers[REG_SP].value = 0 THEN [m |-> Created(m), v |-> VMNull(m.nextId)]
        ELSE dec(VMPtr("stack", WrapSub(m.registers[REG_SP].value, 1), m.nextId))

\* a variant of stackPop that reads the cell before it moves SP
stackPopReadsFirst(m) ==
    LET result(m1, r) == [m |-> IF r.err THEN Throw(m) ELSE m1, v |-> r.obj]
        moved(sp, m1) == result(m1, PtrRead(m, sp, 0))
        dec(sp) == moved(sp, setPtrRegister(Created(m), REG_SP, sp))
    IN  dec(VMPtr("stack", WrapSub(m.registers[REG_SP].value, 1), m.nextId))

stackPop(m) ==
    LET result(m1, r) == [m |-> IF r.err THEN Throw(m1) ELSE m1, v |-> r.obj]
        moved(sp, m1) == result(m1, PtrRead(m1, sp, 0))
        dec(sp) == moved(sp, setPtrRegister(Created(m), REG_SP, sp))
    IN  dec(VMPtr("stack", WrapSub(m.registers[REG_SP].value, 1), m.nextId))

\* a variant of callStackPush that stores the offset of the call itself
callStackPushCurrent(m) ==
    LET written(m1) == IF m1.err THEN m1 ELSE [m1 EXCEPT !.csp = WrapAdd(m.csp, 1)]
    IN  written(PtrWriteNum(m, VMPtr("callStack", m.csp, 0), m.registers[REG_PC].value))

callStackPush(m) ==
    LET written(m1) == IF m1.err THEN m1 ELSE [m1 EXCEPT !.csp = WrapAdd(m.csp, 1)]
    IN  written(PtrWriteNum(m, VMPtr("callStack", m.csp, 0),
                            WrapAdd(m.registers[REG_PC].value, 1)))

callStackPop(m) ==
    LET result(m1, r) ==
            IF r.err THEN Throw(m1)
            ELSE setPtrRegister(Created(m1), REG_PC, VMPtr("memory", r.num, m1.nextId))
        moved(m1) == result(m1, PtrRead(m1, VMPtr("callStack", m1.csp, 0), 0))
    IN  moved([m EXCEPT !.csp = WrapSub(m.csp, 1)])

irsPush(m, num) ==
    LET written(irsp, m1) ==
            IF m1.err THEN m1
            ELSE setPtrRegister(Created(m1), REG_IRSP,
                                VMPtr("irs", WrapAdd(irsp.value, 1), m1.nextId))
    IN  written(m.registers[REG_IRSP], PtrWriteNum(m, m.registers[REG_IRSP], num))

\* a variant of irsPop that reads the cell at IRSP and moves IRSP afterwards
irsPopPostDecrement(m) ==
    LET result(m1, r) ==
            IF r.err THEN [m |-> Throw(m1), num |-> 0] ELSE [m |-> m1, num |-> r.num]
        moved(r, m1) == result(m1, r)
        dec(irsp) == moved(PtrRead(m, m.registers[REG_IRSP], 0),
                           setPtrRegister(Created(m), REG_IRSP, irsp))
    IN  dec(VMPtr("irs", WrapSub(m.registers[REG_IRSP].value, 1), m.nextId))

irsPop(m) ==
    LET result(m1, r) ==
            IF r.err THEN [m |-> Throw(m1), num |-> 0] ELSE [m |-> m1, num |-> r.num]
        moved(irsp, m1) == result(m1, PtrRead(m1, irsp, 0))
        dec(irsp) == moved(irsp, setPtrRegister(Created(m), REG_IRSP, irsp))
    IN  dec(VMPtr("irs", WrapSub(m.registers[REG_IRSP].value, 1), m.nextId))

(***************************************************************************)
(* The register file (class VMRegisters).  Register numbers come from      *)
(* 5-bit instruction fields, so they are always in 0..31.                  *)
(***************************************************************************)
\* VMRegisters.get with getIpop, getIptr, getPop
get(m, num) ==
    LET ipop(r) ==
            IF r.m.err THEN [m |-> r.m, v |-> VMNull(0)]
            ELSE [m |-> Created(r.m), v |-> VMInt(r.num, r.m.nextId)]
        iptr(r) ==
            IF r.m.err THEN [m |-> r.m, v |-> VMNull(0)]
            ELSE [m |-> Created(r.m), v |-> VMPtr("memory", r.num, r.m.nextId)]
    IN  IF num = REG_IPOP THEN ipop(irsPop(m))
        ELSE IF num = REG_IPTR THEN iptr(irsPop(m))
        ELSE IF num = REG_POP THEN stackPop(m)
        ELSE [m |-> m, v |-> m.registers[num]]

\* a variant of set without setZero: slot 0 is written like an ordinary slot
setAnySlot(m, num, obj) ==
    LET pushed(m1) == IF m1.err THEN m1 ELSE [m1 EXCEPT !.registers[REG_PUSH] = obj]
    IN  IF num \in {REG_PC, REG_IRSP, REG_SP} THEN setPtrRegister(m, num, obj)
        ELSE IF num \in {REG_IPOP, REG_IPTR, REG_POP} THEN Throw(m)
        ELSE IF num = REG_PUSH THEN pushed(stackPush(m, obj))
        ELSE [m EXCEPT !.registers[num] = obj]

\* VMRegisters.set with setZero, setPc, setIrsp, setIpop, setIptr, setSp,
\* setPush, setPop
set(m, num, obj) ==
    LET pushed(m1) == IF m1.err THEN m1 ELSE [m1 EXCEPT !.registers[REG_PUSH] = obj]
    IN  IF num = REG_ZERO THEN m
        ELSE IF num \in {REG_PC, REG_IRSP, REG_SP} THEN setPtrRegister(m, num, obj)
        ELSE IF num \in {REG_IPOP, REG_IPTR, REG_POP} THEN Throw(m)
        ELSE IF num = REG_PUSH THEN pushed(stackPush(m, obj))
        ELSE [m EXCEPT !.registers[num] = obj]

\* a variant of resetRegisters that clears slots 24 and 25 like the others
resetRegistersAll(m) ==
    [m EXCEPT
        !.registers =
            [i \in 0..(NUM_REGISTERS - 1) |->
                IF i = REG_ZERO THEN VMInt(0, m.nextId + i)
                ELSE IF i = REG_PC THEN VMPtr("memory", 0, m.nextId + i)
                ELSE IF i = REG_IRSP THEN VMPtr("irs", 0, m.nextId + i)
                ELSE IF i = REG_SP THEN VMPtr("stack", 0, m.nextId + i)
                ELSE VMNull(m.nextId + i)],
        !.nextId = m.nextId + NUM_REGISTERS]

\* VMRegisters.reset: slots 24 and 25 keep the object they hold
resetRegisters(m) ==
    [m EXCEPT
        !.registers =
            [i \in 0..(NUM_REGISTERS - 1) |->
                IF i = REG_ZERO THEN VMInt(0, m.nextId + i)
                ELSE IF i = REG_PC THEN VMPtr("memory", 0, m.nextId + i)
                ELSE IF i = REG_IRSP THEN VMPtr("irs", 0, m.nextId + i)
                ELSE IF i = REG_SP THEN VMPtr("stack", 0, m.nextId + i)
                ELSE IF i \in {REG_P0, REG_P1} THEN m.registers[i]
                ELSE VMNull(m.nextId + i)],
        !.nextId = m.nextId + NUM_REGISTERS]

\* a variant of reset that leaves the branching flag as it is
resetKeepsBranching(m) ==
    LET cleared(m1) ==
            [m1 EXCEPT !.memory = EmptyRegion, !.stack = EmptyRegion,
                       !.callStack = EmptyRegion, !.irs = EmptyRegion,
                       !.stackBase = m1.nextId, !.nextId = m1.nextId + STACK_SIZE,
                       !.csp = 0]
    IN  cleared(resetRegisters([m EXCEPT !.cycles = 0, !.stopped = FALSE,
                                         !.exitValue = ExitUndefined]))

\* VM.reset
reset(m) ==
    LET cleared(m1) ==
            [m1 EXCEPT !.memory = EmptyRegion, !.stack = EmptyRegion,
                       !.callStack = EmptyRegion, !.irs = EmptyRegion,
                       !.stackBase = m1.nextId, !.nextId = m1.nextId + STACK_SIZE,
                       !.csp = 0]
    IN  cleared(resetRegisters([m EXCEPT !.cycles = 0, !.stopped = FALSE,
                                         !.branching = FALSE,
                                         !.exitValue = ExitUndefined]))

(***************************************************************************)
(* Conversion and reinterpretation (VMObject.convert, VMObject.reinterpret *)
(* and the overrides of the subclasses).  Both return [err, v].            *)
(***************************************************************************)
Failed == [err |-> TRUE, v |-> VMNull(0)]
Done(v) == [err |-> FALSE, v |-> v]

\* obj.convert(type), the new object getting identity id
convert(obj, type, id) ==
    IF type = TYPE_NULL THEN Done(VMNull(id))
    ELSE IF type > TYPE_EXT \/ type = TYPE_EXT THEN Failed
    ELSE IF obj.type = TYPE_NULL
    THEN Done(CASE type = TYPE_INT -> VMInt(0, id)
                [] type = TYPE_FLOAT -> VMFloat(0, id)
                [] type = TYPE_PTR -> VMPtr("memory", 0, id))
    ELSE IF obj.type = TYPE_INT
    THEN Done(CASE type = TYPE_INT -> VMInt(obj.value, id)
                [] type = TYPE_FLOAT -> VMFloat(F32Encode(IntToNum(obj.value)), id)
                [] type = TYPE_PTR -> VMPtr("memory", obj.value, id))
    ELSE IF obj.type = TYPE_FLOAT
    THEN (IF type = TYPE_PTR THEN Failed
          ELSE Done(CASE type = TYPE_INT -> VMInt(ToInt32(F32Decode(obj.value)), id)
                      [] type = TYPE_FLOAT ->
                             VMFloat(F32Encode(F32Decode(obj.value)), id)))
    ELSE IF obj.type = TYPE_PTR
    THEN (IF type = TYPE_FLOAT THEN Failed
          ELSE Done(CASE type = TYPE_INT -> VMInt(obj.value, id)
                      [] type = TYPE_PTR -> [obj EXCEPT !.id = id]))
    ELSE Failed

\* a variant of reinterpret that converts the number instead of copying
\* the raw bits
reinterpretConverts(obj, type, id) == convert(obj, type, id)

\* obj.reinterpret(type), the new object getting identity id
reinterpret(obj, type, id) ==
    IF type = TYPE_NULL THEN Done(VMNull(id))
    ELSE IF ~isTypeNumericOrPtr(type) THEN Failed
    ELSE IF ~isTypeNumericOrPtr(obj.type) THEN Failed
    ELSE Done(CASE type = TYPE_INT -> VMInt(obj.value, id)
                [] type = TYPE_FLOAT -> VMFloat(obj.value, id)
                [] type = TYPE_PTR ->
                       IF obj.type = TYPE_PTR THEN [obj EXCEPT !.id = id]
                       ELSE VMPtr("memory", obj.value, id))

(***************************************************************************)
(* Bit operations of the num class on cells.                               *)
(***************************************************************************)
BitOf(op, x, y) ==
    CASE op = "and" -> IF x = 1 /\ y = 1 THEN 1 ELSE 0
      [] op = "or" -> IF x = 1 \/ y = 1 THEN 1 ELSE 0
      [] op = "xor" -> IF x # y THEN 1 ELSE 0
      [] op = "xnor" -> IF x = y THEN 1 ELSE 0

RECURSIVE NatBitOp(_, _, _, _)
NatBitOp(op, x, y, n) ==
    IF n = 0 THEN 0
    ELSE BitOf(op, x % 2, y % 2) + 2 * NatBitOp(op, x \div 2, y \div 2, n - 1)

\* a & b, a | b, a ^ b, ~(a ^ b) on 32-bit cells
BitOp(op, a, b) ==
    NatBitOp(op, Low31(a), Low31(b), 31) +
        (IF BitOf(op, Bit31(a), Bit31(b)) = 1 THEN MinInt32 ELSE 0)

\* a << b: the shift count is the low five bits of b
ShiftLeft32(a, b) == WrapDouble(a, Bits(b, 0, 5))

\* floor(a / 2^k) for any cell a: a >> k
RECURSIVE Halve(_, _)
Halve(a, k) ==
    IF k = 0 THEN a
    ELSE Halve(IF a >= 0 THEN a \div 2 ELSE (0 - ((0 - (a + 1)) \div 2)) - 1, k - 1)

\* a >> b, sign-propagating
ShiftRight32(a, b) == Halve(a, Bits(b, 0, 5))

(***************************************************************************)
(* Instruction decoding (VM.executeInstruction, lines 1025-1043).          *)
(***************************************************************************)
INSTR_CLASS_NOP == 0
INSTR_CLASS_EXIT == 1
INSTR_CLASS_PUSH == 2
INSTR_CLASS_POP == 3
INSTR_CLASS_RET == 4
INSTR_CLASS_ENV == 5
INSTR_CLASS_B == 6
INSTR_CLASS_CMP == 7
INSTR_CLASS_CVT == 8
INSTR_CLASS_NUM == 9
INSTR_CLASS_MEM == 10
INSTR_CLASS_SYS == 15

\* the classes that have a handler
INSTR_CLASS_EXECS ==
    {INSTR_CLASS_NOP, INSTR_CLASS_EXIT, INSTR_CLASS_PUSH, INSTR_CLASS_POP,
     INSTR_CLASS_RET, INSTR_CLASS_ENV, INSTR_CLASS_B, INSTR_CLASS_CMP,
     INSTR_CLASS_CVT, INSTR_CLASS_NUM, INSTR_CLASS_MEM, INSTR_CLASS_SYS}

\* the fields of an instruction word
Decode(instr) ==
    [class |-> Bit31(instr) * 8 + Bits(instr, 28, 3),
     s |-> Bits(instr, 27, 1),
     c0 |-> Bits(instr, 24, 3),
     c1 |-> Bits(instr, 21, 3),
     r0 |-> Bits(instr, 16, 5),
     c2 |-> Bits(instr, 13, 3),
     r1 |-> Bits(instr, 8, 5),
     c3 |-> Bits(instr, 5, 3),
     r2 |-> Bits(instr, 0, 5),
     imm |-> Bits(instr, 0, 16),
     immSigned |-> SignExtend16(Bits(instr, 0, 16))]

\* bit k of a field
And(field, mask) == (field \div mask) % 2 = 1

(***************************************************************************)
(* The class handlers.  Each takes the machine and the decoded fields d    *)
(* and returns [m |-> the machine after it, ret |-> its return value as a  *)
(* truth value]; when m.err is set the handler threw at that point.        *)
(***************************************************************************)
Ret(m, ret) == [m |-> m, ret |-> ret]

execNop(m, d) == Ret(m, TRUE)

\* a variant of execExit that returns true, so that the S bit pushes
execExitPushes(m, d) ==
    LET read(g) ==
            IF g.m.err THEN Ret(g.m, TRUE)
            ELSE Ret([g.m EXCEPT !.exitValue = ExitObject(g.v)], TRUE)
        stop(m1) ==
            IF And(d.c0, 1) THEN read(get(m1, d.r0))
            ELSE Ret([m1 EXCEPT !.exitValue = ExitNumber(d.immSigned)], TRUE)
    IN  stop([m EXCEPT !.stopped = TRUE])

execExit(m, d) ==
    LET read(g) ==
            IF g.m.err THEN Ret(g.m, FALSE)
            ELSE Ret([g.m EXCEPT !.exitValue = ExitObject(g.v)], FALSE)
        stop(m1) ==
            IF And(d.c0, 1) THEN read(get(m1, d.r0))
            ELSE Ret([m1 EXCEPT !.exitValue = ExitNumber(d.immSigned)], FALSE)
    IN  stop([m EXCEPT !.stopped = TRUE])

execPush(m, d) ==
    LET read(g) == IF g.m.err THEN Ret(g.m, TRUE) ELSE Ret(stackPush(g.m, g.v), TRUE)
    IN  IF And(d.c0, 1) THEN read(get(m, d.r0))
        ELSE Ret(stackPush(Created(m), VMInt(d.immSigned, m.nextId)), FALSE)

\* create(c0 & 0b010 ? VMPtr : VMInt, this.irsPop()): the VMPtr constructor
\* takes (vm, memory, value), so the popped word lands in the memory field
\* and the value is setUint32(undefined) = 0
execPop(m, d) ==
    LET ipopped(p) ==
            IF p.m.err THEN Ret(p.m, TRUE)
            ELSE Ret(set(Created(p.m), d.r0,
                         IF And(d.c0, 2)
                         THEN [VMPtr("number", 0, p.m.nextId) EXCEPT
                                  !.ext = HostNumber(IntToNum(p.num))]
                         ELSE VMInt(p.num, p.m.nextId)), TRUE)
        popped(p) == IF p.m.err THEN Ret(p.m, TRUE) ELSE Ret(set(p.m, d.r0, p.v), TRUE)
    IN  IF And(d.c0, 1) THEN ipopped(irsPop(m)) ELSE popped(stackPop(m))

execRet(m, d) ==
    LET popped(m1) ==
            IF m1.err THEN Ret(m1, TRUE) ELSE Ret([m1 EXCEPT !.branching = TRUE], TRUE)
    IN  popped(callStackPop(m))

(***************************************************************************)
(* Strings (VMPtr.readString, VM.decodeStringUtf8): a string is the        *)
(* sequence of its UTF-8 bytes.                                            *)
(***************************************************************************)
\* the four bytes of a word, big-endian (DataView.setUint32 / getUint8)
WordBytes(w) ==
    <<Bit31(w) * 128 + Bits(w, 24, 7), Bits(w, 16, 8), Bits(w, 8, 8), Bits(w, 0, 8)>>

\* the bytes of a word before its first NUL
RECURSIVE UpToNul(_)
UpToNul(b) == IF b = <<>> \/ Head(b) = 0 THEN <<>> ELSE <<Head(b)>> \o UpToNul(Tail(b))

\* TextDecoder("utf-8", {fatal: true}): whether the bytes from i on decode
RECURSIVE Utf8Ok(_, _)
Utf8Ok(b, i) ==
    IF i > Len(b) THEN TRUE
    ELSE LET c == b[i]
             cont(j) == j <= Len(b) /\ b[j] \in 128..191
         IN  IF c < 128 THEN Utf8Ok(b, i + 1)
             ELSE IF c \in 194..223 THEN cont(i + 1) /\ Utf8Ok(b, i + 2)
             ELSE IF c \in 224..239
             THEN /\ cont(i + 1) /\ cont(i + 2)
                  /\ (c = 224 => b[i + 1] >= 160)
                  /\ (c = 237 => b[i + 1] <= 159)
                  /\ Utf8Ok(b, i + 3)
             ELSE IF c \in 240..244
             THEN /\ cont(i + 1) /\ cont(i + 2) /\ cont(i + 3)
                  /\ (c = 240 => b[i + 1] >= 144)
                  /\ (c = 244 => b[i + 1] <= 143)
                  /\ Utf8Ok(b, i + 4)
             ELSE FALSE

\* the decoder drops a leading byte order mark
DropBom(b) ==
    IF Len(b) >= 3 /\ b[1] = 239 /\ b[2] = 187 /\ b[3] = 191
    THEN SubSeq(b, 4, Len(b)) ELSE b

\* the words read from word i on, up to the first NUL byte: [err, str]
RECURSIVE ReadWords(_, _, _)
ReadWords(m, ptr, i) ==
    LET more(head, rest) == [err |-> rest.err, str |-> head \o rest.str]
        word(r, head) ==
            IF r.err THEN [err |-> TRUE, str |-> <<>>]
            ELSE IF Len(head) < 4 THEN [err |-> FALSE, str |-> head]
            ELSE more(head, ReadWords(m, ptr, i + 1))
        at(r) == word(r, UpToNul(WordBytes(r.num)))
    IN  at(PtrRead(m, ptr, i))

\* VMPtr.readString(): [err, str]
readString(m, ptr) ==
    LET decode(r) ==
            IF r.err \/ ~Utf8Ok(r.str, 1) THEN [err |-> TRUE, str |-> <<>>]
            ELSE [err |-> FALSE, str |-> DropBom(r.str)]
    IN  IF ptr.memory \in {"stack", "number"} THEN [err |-> TRUE, str |-> <<>>]
        ELSE decode(ReadWords(m, ptr, 0))

\* obj.getValueOrString(): [err, h], the JS value as a host value
getValueOrString(m, obj) ==
    LET string(r) == [err |-> r.err, h |-> HostString(r.str)]
    IN  CASE obj.type = TYPE_NULL -> [err |-> FALSE, h |-> HostNull]
          [] obj.type = TYPE_INT ->
                 [err |-> FALSE, h |-> HostNumber(IntToNum(obj.value))]
          [] obj.type = TYPE_FLOAT ->
                 [err |-> FALSE, h |-> HostNumber(F32Decode(obj.value))]
          [] obj.type = TYPE_EXT -> [err |-> FALSE, h |-> obj.ext]
          [] obj.type = TYPE_PTR -> string(readString(m, obj))

(***************************************************************************)
(* b (branch / call), with the external call of a host callable.  host is  *)
(* what the host callable does when it is called: [throws, res], res the  *)
(* host value it returns (HostUndefined when it returns nothing).          *)
(***************************************************************************)
\* the loop that pops argCount arguments; with ext set each is marshalled by
\* getValueOrString as soon as it is popped.  [m, args]
RECURSIVE popArgs(_, _, _)
popArgs(m, argCount, ext) ==
    LET more(p, rest) == [m |-> rest.m, args |-> <<p.v>> \o rest.args]
        marshalled(p, g) ==
            IF ext /\ g.err THEN [m |-> Throw(p.m), args |-> <<>>]
            ELSE more(p, popArgs(p.m, argCount - 1, ext))
        popped(p) ==
            IF p.m.err THEN [m |-> p.m, args |-> <<>>]
            ELSE marshalled(p, getValueOrString(p.m, p.v))
    IN  IF argCount <= 0 THEN [m |-> m, args |-> <<>>] ELSE popped(stackPop(m))

\* lines 1167-1208: call.r / callc.r of a register holding an Ext
externalCall(m, reg, host) ==
    LET func == reg.ext
        isEnv == func.kind = "envfunction"
        isFn == func.kind = "function"
        called(a) ==
            IF a.m.err THEN a.m
            ELSE IF ~(isEnv \/ isFn) THEN Throw(a.m)
            ELSE IF host.throws THEN Throw(a.m)
            ELSE stackPush(
                     Created([a.m EXCEPT !.lastCall = [func |-> func, args |-> a.args]]),
                     IF host.res.kind = "undefined" THEN VMNull(a.m.nextId)
                     ELSE VMExt(host.res, a.m.nextId))
        counted(p) ==
            IF p.m.err THEN p.m
            ELSE IF isFn /\ p.v.type # TYPE_INT THEN Throw(p.m)
            ELSE called(popArgs(p.m, IF isEnv THEN func.args
                                     ELSE IF isFn THEN p.v.value ELSE 0, isFn))
    IN  counted(IF isFn THEN stackPop(m) ELSE [m |-> m, v |-> VMNull(0)])

\* a variant of branchTarget that takes a relative branch from the next
\* instruction instead of from the branch itself
branchTargetFromNext(absolute, pc, target) ==
    IF absolute THEN target ELSE WrapAdd(WrapAdd(pc.value, 1), target)

\* lines 1223-1229: the offset the branch writes to PC
branchTarget(absolute, pc, target) ==
    IF absolute THEN target ELSE WrapAdd(pc.value, target)

execB(m, d, host) ==
    LET conditional == And(d.c1, 4)
        comp == m.registers[REG_COMP]
        branch == IF conditional THEN comp.value # 0 ELSE TRUE
        useRegister == And(d.c0, 1)
        absolute == And(d.c0, 2)
        call == And(d.c0, 4)
        jump(m1, target) ==
            IF m1.err THEN Ret(m1, FALSE)
            ELSE Ret([set(Created(m1), REG_PC,
                          VMPtr("memory",
                                branchTarget(absolute, m1.registers[REG_PC], target),
                                m1.nextId))
                         EXCEPT !.branching = TRUE], useRegister)
        taken(g) ==
            IF g.m.err THEN Ret(g.m, FALSE)
            ELSE IF useRegister /\ call /\ g.v.type = TYPE_EXT
            THEN Ret(externalCall(g.m, g.v, host), useRegister)
            ELSE IF useRegister /\
                    ~(g.v.type = TYPE_INT \/ (absolute /\ g.v.type = TYPE_PTR))
            THEN Ret(Throw(g.m), FALSE)
            ELSE jump(IF call THEN callStackPush(g.m) ELSE g.m,
                      IF useRegister THEN g.v.value ELSE d.immSigned)
    IN  IF conditional /\ comp.type # TYPE_INT THEN Ret(Throw(m), FALSE)
        ELSE IF ~branch THEN Ret(m, useRegister)
        ELSE IF call /\ ~absolute THEN Ret(Throw(m), FALSE)
        ELSE taken(IF useRegister THEN get(m, d.r0) ELSE [m |-> m, v |-> VMNull(0)])

(***************************************************************************)
(* cmp                                                                     *)
(***************************************************************************)
BoolInt(b) == IF b THEN 1 ELSE 0

\* obj.getValue() of an Int or a Float, as a JS number
NumberOf(obj) == IF obj.type = TYPE_FLOAT THEN F32Decode(obj.value) ELSE IntToNum(obj.value)

\* the `memory` field of a Ptr, as `!=` compares it
MemoryOf(obj) == <<obj.memory, obj.ext>>

\* val0 < val1 and val0 == val1, the values being the unsigned offsets of two
\* Ptrs or two JS numbers
ValLess(a, b, bothPtr) ==
    IF bothPtr THEN ULess(a.value, b.value) ELSE NumLess(NumberOf(a), NumberOf(b))
ValEq(a, b, bothPtr) ==
    IF bothPtr THEN a.value = b.value ELSE NumEq(NumberOf(a), NumberOf(b))

\* the result of the switch on c0 (lines 1293-1325); same is reg0 == reg1
cmpResult(c0, a, b, bothPtr, same) ==
    LET order(lt, gt, eq) ==
            CASE c0 = 0 -> IF lt THEN -1 ELSE IF gt THEN 1 ELSE 0
              [] c0 = 1 -> BoolInt(eq)
              [] c0 = 2 -> BoolInt(lt)
              [] c0 = 3 -> BoolInt(gt)
              [] c0 = 4 -> BoolInt(same)
              [] c0 = 5 -> BoolInt(~eq)
              [] c0 = 6 -> BoolInt(gt \/ eq)
              [] c0 = 7 -> BoolInt(lt \/ eq)
    IN  order(ValLess(a, b, bothPtr), ValLess(b, a, bothPtr), ValEq(a, b, bothPtr))

\* !val0
valueFalsy(obj) ==
    IF obj.type = TYPE_FLOAT THEN NumFalsy(F32Decode(obj.value)) ELSE obj.value = 0

\* a variant of ptrMismatch that does not look at the regions
ptrMismatchKindOnly(reg0, reg1) == (reg0.type = TYPE_PTR) # (reg1.type = TYPE_PTR)

\* lines 1271-1273 and 1289-1291: a Ptr against what is no Ptr, or two Ptrs
\* into different regions
ptrMismatch(reg0, reg1) ==
    \/ (reg0.type = TYPE_PTR) # (reg1.type = TYPE_PTR)
    \/ reg0.type = TYPE_PTR /\ reg1.type = TYPE_PTR /\ MemoryOf(reg0) # MemoryOf(reg1)

execCmp(m, d) ==
    LET regMode == And(d.c1, 1)
        destReg == IF regMode THEN d.r1 ELSE REG_COMP
        result(mm, n) == Ret(set(Created(mm), destReg, VMInt(n, mm.nextId)), FALSE)
        second(reg0, g1) ==
            IF g1.m.err THEN Ret(g1.m, FALSE)
            ELSE IF ~isTypeNumericOrPtr(g1.v.type) THEN Ret(Throw(g1.m), FALSE)
            ELSE IF ptrMismatch(reg0, g1.v) THEN Ret(Throw(g1.m), FALSE)
            ELSE result(g1.m, cmpResult(d.c0, reg0, g1.v, reg0.type = TYPE_PTR,
                                        reg0.id = g1.v.id))
        first(g0) ==
            IF g0.m.err THEN Ret(g0.m, FALSE)
            ELSE IF regMode /\ d.c0 = 3 THEN result(g0.m, BoolInt(g0.v.type = TYPE_NULL))
            ELSE IF regMode /\ d.c0 = 7 THEN result(g0.m, BoolInt(g0.v.type # TYPE_NULL))
            ELSE IF ~isTypeNumericOrPtr(g0.v.type) THEN Ret(Throw(g0.m), FALSE)
            ELSE IF regMode THEN second(g0.v, get(g0.m, d.r2))
            ELSE IF d.c0 = 4
            THEN Ret(set(Created(g0.m), destReg,
                         VMInt(BoolInt(valueFalsy(g0.v)), g0.m.nextId)), TRUE)
            ELSE IF g0.v.type = TYPE_PTR THEN Ret(Throw(g0.m), FALSE)
            ELSE result(g0.m, cmpResult(d.c0, g0.v, VMInt(d.immSigned, 0), FALSE, FALSE))
    IN  first(get(m, d.r0))

(***************************************************************************)
(* cvt                                                                     *)
(***************************************************************************)
execCvt(m, d) ==
    LET regMode == And(d.c1, 1)
        stored(mm, c) ==
            IF c.err THEN Ret(Throw(mm), FALSE)
            ELSE Ret(set(Created(mm), d.r0, c.v), FALSE)
        reinterpreted(mm, r) ==
            IF r.err THEN Ret(Throw(mm), FALSE)
            ELSE stored(mm, convert(r.v, d.c0, mm.nextId))
        read(g) ==
            IF g.m.err THEN Ret(g.m, FALSE)
            ELSE reinterpreted(g.m, IF d.s = 1 THEN reinterpret(g.v, d.r1, 0)
                                    ELSE Done(g.v))
    IN  IF d.c0 = TYPE_NULL
        THEN Ret(set(Created(m), d.r0, VMNull(m.nextId)), ~regMode)
        ELSE IF regMode THEN read(get(m, d.r2))
        ELSE stored(m, convert(VMInt(d.immSigned, 0), d.c0, m.nextId))

(***************************************************************************)
(* num                                                                     *)
(***************************************************************************)
\* the type check of line 1377: TRUE when the handler throws
numTypeError(x, y, c0) ==
    LET isAddSub == c0 < 2
        isBitwise == c0 > 4
    IN  /\ \/ ~isTypeNumeric(x.type)
           \/ ~isTypeNumeric(y.type)
           \/ (isBitwise /\ (x.type # TYPE_INT \/ y.type # TYPE_INT))
        /\ ~(isAddSub /\ x.type = TYPE_PTR /\ (y.type = TYPE_INT \/ y.type = TYPE_PTR))

\* res of the arithmetic cases, as a JS number (x and y numeric)
numArith(c0, x, y) ==
    LET op(a, b) ==
            CASE c0 = 0 -> NumAdd(a, b)
              [] c0 = 1 -> NumSub(a, b)
              [] c0 = 2 -> NumMul(a, b)
              [] c0 = 3 -> NumDiv(a, b)
              [] c0 = 4 -> NumMod(a, b)
    IN  op(NumberOf(x), NumberOf(y))

\* res of the bitwise cases, already ToInt32 (x and y Int)
numBitwise(c0, s, x, y) ==
    CASE c0 = 5 -> BitOp(IF s = 1 THEN "or" ELSE "and", x.value, y.value)
      [] c0 = 6 -> BitOp(IF s = 1 THEN "xnor" ELSE "xor", x.value, y.value)
      [] c0 = 7 -> IF s = 1 THEN ShiftRight32(x.value, y.value)
                   ELSE ShiftLeft32(x.value, y.value)

\* a variant of numResult in which an arithmetic result is a Float as soon
\* as one operand is
numResultFloatOfY(c0, s, x, y, id) ==
    LET arith(res) ==
            IF s = 1 \/ x.type = TYPE_FLOAT \/ y.type = TYPE_FLOAT
            THEN VMFloat(F32Encode(res), id)
            ELSE VMInt(ToInt32(res), id)
    IN  IF c0 > 4 THEN VMInt(numBitwise(c0, s, x, y), id)
        ELSE IF x.type = TYPE_PTR
        THEN [x EXCEPT !.value = IF c0 = 0 THEN WrapAdd(x.value, y.value)
                                 ELSE WrapSub(x.value, y.value),
                       !.id = id]
        ELSE arith(numArith(c0, x, y))

\* the object written to r0 (lines 1434-1440), with identity id
numResult(c0, s, x, y, id) ==
    LET arith(res) ==
            IF s = 1 \/ x.type = TYPE_FLOAT THEN VMFloat(F32Encode(res), id)
            ELSE VMInt(ToInt32(res), id)
    IN  IF c0 > 4 THEN VMInt(numBitwise(c0, s, x, y), id)
        ELSE IF x.type = TYPE_PTR
        THEN [x EXCEPT !.value = IF c0 = 0 THEN WrapAdd(x.value, y.value)
                                 ELSE WrapSub(x.value, y.value),
                       !.id = id]
        ELSE IF s = 0 /\ x.type = TYPE_INT /\ y.type = TYPE_INT /\ c0 = 0
        THEN VMInt(WrapAdd(x.value, y.value), id)
        ELSE IF s = 0 /\ x.type = TYPE_INT /\ y.type = TYPE_INT /\ c0 = 1
        THEN VMInt(WrapSub(x.value, y.value), id)
        ELSE arith(numArith(c0, x, y))

\* a variant of execNum that reads Y (r2) before X (r1)
execNumYFirst(m, d) ==
    LET second(gx, y) ==
            IF gx.m.err THEN Ret(gx.m, FALSE)
            ELSE IF numTypeError(gx.v, y, d.c0) THEN Ret(Throw(gx.m), FALSE)
            ELSE IF d.c0 < 2 /\ d.s = 1 /\ gx.v.type = TYPE_PTR THEN Ret(Throw(gx.m), FALSE)
            ELSE Ret(set(Created(gx.m), d.r0,
                         numResult(d.c0, d.s, gx.v, y, gx.m.nextId)), FALSE)
        first(gy) == IF gy.m.err THEN Ret(gy.m, FALSE) ELSE second(get(gy.m, d.r1), gy.v)
    IN  first(get(m, d.r2))

execNum(m, d) ==
    LET second(x, gy) ==
            IF gy.m.err THEN Ret(gy.m, FALSE)
            ELSE IF numTypeError(x, gy.v, d.c0) THEN Ret(Throw(gy.m), FALSE)
            ELSE IF d.c0 < 2 /\ d.s = 1 /\ x.type = TYPE_PTR THEN Ret(Throw(gy.m), FALSE)
            ELSE Ret(set(Created(gy.m), d.r0,
                         numResult(d.c0, d.s, x, gy.v, gy.m.nextId)), FALSE)
        first(gx) == IF gx.m.err THEN Ret(gx.m, FALSE) ELSE second(gx.v, get(gx.m, d.r2))
    IN  first(get(m, d.r1))

(***************************************************************************)
(* mem: readMemory and writeMemory always go to this.memory, whatever      *)
(* region the Ptr in r1 carries.                                           *)
(***************************************************************************)
\* ptr.getValue() + offset.getValue() when that is an address below 2^31,
\* and -1 otherwise; the offset is signed for an Int, unsigned for a Ptr
memAddr(ptr, offset) ==
    LET p == ptr.value
        o == offset.value
        oUnsigned == offset.type = TYPE_PTR
        hi == p - MinInt32
        lo == o - MinInt32
    IN  IF p < 0
        THEN (IF oUnsigned \/ o >= 0 THEN -1
              ELSE IF hi > MaxInt32 - lo THEN -1 ELSE hi + lo)
        ELSE IF o < 0 THEN (IF oUnsigned \/ p + o < 0 THEN -1 ELSE p + o)
        ELSE IF p > MaxInt32 - o THEN -1 ELSE p + o

\* execMem with a read that stores Null where the reinterpretation throws
execMemReadsExt(m, d) ==
    LET bad(addr) == addr < 0 \/ addr >= MAIN_MEMORY_SIZE
        written(addr, gz) ==
            IF gz.m.err THEN Ret(gz.m, FALSE)
            ELSE IF ~isTypeNumericOrPtr(gz.v.type) \/ bad(addr)
            THEN Ret(Throw(gz.m), FALSE)
            ELSE Ret([gz.m EXCEPT !.memory = IntStore(@, addr, gz.v.value)], FALSE)
        loaded(mm, rd) ==
            IF rd.err THEN Ret(set(Created(mm), d.r0, VMNull(mm.nextId)), FALSE)
            ELSE Ret(set(Created(mm), d.r0, rd.v), FALSE)
        at(mm, addr) ==
            IF d.s = 1 THEN written(addr, get(mm, d.r0))
            ELSE IF bad(addr) THEN Ret(Throw(mm), FALSE)
            ELSE loaded(mm, reinterpret(VMInt(IntLoad(mm.memory, addr), 0), d.c0,
                                        mm.nextId))
        second(ptr, go) ==
            IF go.m.err THEN Ret(go.m, FALSE)
            ELSE IF go.v.type # TYPE_INT /\ go.v.type # TYPE_PTR
            THEN Ret(Throw(go.m), FALSE)
            ELSE at(go.m, memAddr(ptr, go.v))
        first(gp) ==
            IF gp.m.err THEN Ret(gp.m, FALSE)
            ELSE IF gp.v.type # TYPE_PTR THEN Ret(Throw(gp.m), FALSE)
            ELSE second(gp.v, get(gp.m, d.r2))
    IN  first(get(m, d.r1))

execMem(m, d) ==
    LET bad(addr) == addr < 0 \/ addr >= MAIN_MEMORY_SIZE
        written(addr, gz) ==
            IF gz.m.err THEN Ret(gz.m, FALSE)
            ELSE IF ~isTypeNumericOrPtr(gz.v.type) \/ bad(addr)
            THEN Ret(Throw(gz.m), FALSE)
            ELSE Ret([gz.m EXCEPT !.memory = IntStore(@, addr, gz.v.value)], FALSE)
        loaded(mm, rd) ==
            IF rd.err THEN Ret(Throw(mm), FALSE)
            ELSE Ret(set(Created(mm), d.r0, rd.v), FALSE)
        at(mm, addr) ==
            IF d.s = 1 THEN written(addr, get(mm, d.r0))
            ELSE IF bad(addr) THEN Ret(Throw(mm), FALSE)
            ELSE loaded(mm, reinterpret(VMInt(IntLoad(mm.memory, addr), 0), d.c0,
                                        mm.nextId))
        second(ptr, go) ==
            IF go.m.err THEN Ret(go.m, FALSE)
            ELSE IF go.v.type # TYPE_INT /\ go.v.type # TYPE_PTR
            THEN Ret(Throw(go.m), FALSE)
            ELSE at(go.m, memAddr(ptr, go.v))
        first(gp) ==
            IF gp.m.err THEN Ret(gp.m, FALSE)
            ELSE IF gp.v.type # TYPE_PTR THEN Ret(Throw(gp.m), FALSE)
            ELSE second(gp.v, get(gp.m, d.r2))
    IN  first(get(m, d.r1))

(***************************************************************************)
(* sys: the console output is no part of the machine.                      *)
(***************************************************************************)
\* a variant of execSys that stops on bit 2 of c0
execSysOnC0(m, d) ==
    LET printed(g) == Ret(g.m, FALSE)
    IN  IF d.s = 0 /\ And(d.c0, 1) THEN printed(get(m, d.r0))
        ELSE IF And(d.c0, 4) THEN Ret([m EXCEPT !.stopped = TRUE], FALSE)
        ELSE Ret(m, FALSE)

execSys(m, d) ==
    LET printed(g) == Ret(g.m, FALSE)
    IN  IF d.s = 0 /\ And(d.c0, 1) THEN printed(get(m, d.r0))
        ELSE IF d.s = 1 THEN Ret([m EXCEPT !.stopped = TRUE], FALSE)
        ELSE Ret(m, FALSE)

(***************************************************************************)
(* env.  The environment is the function from the keys that are set to     *)
(* host values; the properties of host objects are the function props from *)
(* <<name of the object, key>> to host values.  A key is the string JS     *)
(* makes of the value (ToPropertyKey).  Keys inherited from                *)
(* Object.prototype are outside the strings the model uses.                *)
(***************************************************************************)
\* the decimal digits of a natural number, as character codes
RECURSIVE Digits(_)
Digits(n) == IF n < 10 THEN <<48 + n>> ELSE Digits(n \div 10) \o <<48 + (n % 10)>>

\* String(number) for the numbers that print as an integer, NaN or Infinity
NumberToString(a) ==
    CASE a.cls = "nan" -> <<78, 97, 78>>
      [] a.cls = "zero" -> <<48>>
      [] a.cls = "inf" ->
             (IF a.neg THEN <<45>> ELSE <<>>) \o <<73, 110, 102, 105, 110, 105, 116, 121>>
      [] a.cls = "fin" ->
             IF a.d # 1 \/ a.e < 0 THEN Undefined
             ELSE (IF a.neg THEN <<45>> ELSE <<>>) \o Digits(ShiftLeft(a.m, a.e))

\* the names of the host objects and functions, for the strings JS makes of them
HostNames == <<"globalThis", "vmbind", "new", "document">>

\* the property key JS makes of a host value
KeyString(h) ==
    CASE h.kind = "null" -> <<110, 117, 108, 108>>
      [] h.kind = "undefined" -> <<117, 110, 100, 101, 102, 105, 110, 101, 100>>
      [] h.kind = "number" -> NumberToString(h.num)
      [] h.kind = "string" -> h.str
      [] h.kind = "function" ->
             <<255, CHOOSE i \in 1..Len(HostNames) : HostNames[i] = h.name>>
      [] OTHER -> <<91, 111, 98, 106, 101, 99, 116, 32, 79, 98, 106, 101, 99, 116, 93>>

RECURSIVE DigitsValue(_, _)
DigitsValue(str, acc) ==
    IF str = <<>> THEN acc ELSE DigitsValue(Tail(str), 10 * acc + (Head(str) - 48))

\* Number(val) for the host values of the model: a number is itself, a
\* string of decimal digits is its value, the empty string is 0, a string of
\* lower-case letters and every object or function is NaN
ToNumber(h) ==
    CASE h.kind = "number" -> h.num
      [] h.kind = "string" ->
             IF h.str = <<>> THEN NumZero(FALSE)
             ELSE IF \A i \in 1..Len(h.str) : h.str[i] \in 48..57
             THEN (IF Len(h.str) > 9 THEN Undefined
                   ELSE NumFin(FALSE, DigitsValue(h.str, 0), 0))
             ELSE IF \A i \in 1..Len(h.str) : h.str[i] \in 97..122 THEN NumNaN
             ELSE Undefined
      [] OTHER -> NumNaN

\* whether the host value can carry properties (`key in root`, `root[key] =`)
isHostObject(h) == h.kind \in {"object", "function", "envfunction"}

\* VM.getEnvironment(key, base): [err, h], HostNull for a missing key
getEnvironment(m, key, base) ==
    IF base.kind \in {"null", "undefined"}
    THEN [err |-> FALSE, h |-> IF key \in DOMAIN m.env THEN m.env[key] ELSE HostNull]
    ELSE IF ~isHostObject(base) THEN [err |-> TRUE, h |-> HostNull]
    ELSE [err |-> FALSE,
          h |-> IF <<base.name, key>> \in DOMAIN m.props
                THEN m.props[<<base.name, key>>] ELSE HostNull]

\* VM.setEnvironment(key, value, base)
setEnvironment(m, key, value, base) ==
    IF base.kind \in {"null", "undefined"}
    THEN [m EXCEPT !.env = [k \in (DOMAIN m.env) \cup {key} |->
                               IF k = key THEN value ELSE m.env[k]]]
    ELSE IF ~isHostObject(base) THEN Throw(m)
    ELSE [m EXCEPT !.props = [k \in (DOMAIN m.props) \cup {<<base.name, key>>} |->
                                 IF k = <<base.name, key>> THEN value ELSE m.props[k]]]

execEnv(m, d) ==
    LET property == And(d.c0, 1)
        fetched(mm, key, val, num) ==
            IF val.err THEN Ret(Throw(mm), FALSE)
            ELSE IF val.h.kind \in {"null", "undefined"}
            THEN Ret(set(Created(mm), d.r0, VMNull(mm.nextId)), FALSE)
            ELSE IF And(d.c0, 2)
            THEN Ret(set(Created(mm), d.r0, VMExt(val.h, mm.nextId)), FALSE)
            ELSE IF num.cls = "nan" THEN Ret(Throw(mm), FALSE)
            ELSE Ret(set(Created(mm), d.r0, VMFloat(F32Encode(num), mm.nextId)), FALSE)
        looked(mm, key, val) == fetched(mm, key, val, ToNumber(val.h))
        marshalled(mm, key, base, vs) ==
            IF vs.err THEN Ret(Throw(mm), FALSE)
            ELSE Ret(setEnvironment(mm, key, vs.h, base), FALSE)
        value(key, base, gv) ==
            IF gv.m.err THEN Ret(gv.m, FALSE)
            ELSE marshalled(gv.m, key, base, getValueOrString(gv.m, gv.v))
        based(mm, key, base) ==
            IF d.s = 1 THEN value(key, base, get(mm, d.r0))
            ELSE looked(mm, key, getEnvironment(mm, key, base))
        object(key, gb) ==
            IF gb.m.err THEN Ret(gb.m, FALSE)
            ELSE IF gb.v.type # TYPE_EXT THEN Ret(Throw(gb.m), FALSE)
            ELSE based(gb.m, key, gb.v.ext)
        keyed(mm, key) ==
            IF property THEN object(key, get(mm, d.r2)) ELSE based(mm, key, HostNull)
        string(mm, ks) ==
            IF ks.err THEN Ret(Throw(mm), FALSE) ELSE keyed(mm, KeyString(ks.h))
        first(gk) ==
            IF gk.m.err THEN Ret(gk.m, FALSE)
            ELSE string(gk.m, getValueOrString(gk.m, gk.v))
    IN  first(get(m, d.r1))

(***************************************************************************)
(* Dispatch and the step.                                                  *)
(***************************************************************************)
\* the handler of the class of d
handler(m, d, host) ==
    CASE d.class = INSTR_CLASS_NOP -> execNop(m, d)
      [] d.class = INSTR_CLASS_EXIT -> execExit(m, d)
      [] d.class = INSTR_CLASS_PUSH -> execPush(m, d)
      [] d.class = INSTR_CLASS_POP -> execPop(m, d)
      [] d.class = INSTR_CLASS_RET -> execRet(m, d)
      [] d.class = INSTR_CLASS_ENV -> execEnv(m, d)
      [] d.class = INSTR_CLASS_B -> execB(m, d, host)
      [] d.class = INSTR_CLASS_CMP -> execCmp(m, d)
      [] d.class = INSTR_CLASS_CVT -> execCvt(m, d)
      [] d.class = INSTR_CLASS_NUM -> execNum(m, d)
      [] d.class = INSTR_CLASS_MEM -> execMem(m, d)
      [] d.class = INSTR_CLASS_SYS -> execSys(m, d)

\* VM.executeInstruction(instr)
\* a variant of executeInstruction that counts a word of a class without a
\* handler as an instruction that does nothing
executeInstructionReservedNop(m, instr, host) ==
    LET counted(m1) == IF m1.err THEN m1 ELSE [m1 EXCEPT !.cycles = @ + 1]
        handled(d, h) ==
            IF h.m.err THEN h.m
            ELSE counted(IF h.ret /\ d.s = 1 THEN irsPush(h.m, d.immSigned) ELSE h.m)
        decoded(d) ==
            IF d.class \notin INSTR_CLASS_EXECS THEN counted(m)
            ELSE handled(d, handler(m, d, host))
    IN  decoded(Decode(instr))

\* a variant of executeInstruction that counts the instruction before the
\* push of the S flag
executeInstructionCountsFirst(m, instr, host) ==
    LET counted(m1) == IF m1.err THEN m1 ELSE [m1 EXCEPT !.cycles = @ + 1]
        handled(d, h) ==
            IF h.m.err THEN h.m
            ELSE IF h.ret /\ d.s = 1 THEN irsPush(counted(h.m), d.immSigned)
            ELSE counted(h.m)
        decoded(d) ==
            IF d.class \notin INSTR_CLASS_EXECS THEN Throw(m)
            ELSE handled(d, handler(m, d, host))
    IN  decoded(Decode(instr))

executeInstruction(m, instr, host) ==
    LET counted(m1) == IF m1.err THEN m1 ELSE [m1 EXCEPT !.cycles = @ + 1]
        handled(d, h) ==
            IF h.m.err THEN h.m
            ELSE counted(IF h.ret /\ d.s = 1 THEN irsPush(h.m, d.immSigned) ELSE h.m)
        decoded(d) ==
            IF d.class \notin INSTR_CLASS_EXECS THEN Throw(m)
            ELSE handled(d, handler(m, d, host))
    IN  decoded(Decode(instr))

\* the word step() hands to executeInstruction: pc.read(0); a Value read
\* through a PC pointing into the data stack is NaN to every bit operation of
\* the decoder, that is the word 0
fetch(m) ==
    LET word(r) ==
            [err |-> r.err,
             instr |-> IF m.registers[REG_PC].memory = "stack" THEN 0 ELSE r.num]
    IN  word(PtrRead(m, m.registers[REG_PC], 0))

\* VM.step()
\* a variant of step without the test of stopped
stepWhileStopped(m, host) ==
    LET advanced(m2) == [m2 EXCEPT !.branching = FALSE]
        executed(m1) ==
            IF m1.err THEN m1
            ELSE advanced(IF m1.branching THEN m1
                          ELSE set(Created(m1), REG_PC,
                                   VMPtr("memory",
                                         WrapAdd(m.registers[REG_PC].value, 1),
                                         m1.nextId)))
        fetched(f) ==
            IF f.err THEN Throw(m) ELSE executed(executeInstruction(m, f.instr, host))
    IN  fetched(fetch(m))

step(m, host) ==
    LET advanced(m2) == [m2 EXCEPT !.branching = FALSE]
        executed(m1) ==
            IF m1.err THEN m1
            ELSE advanced(IF m1.branching THEN m1
                          ELSE set(Created(m1), REG_PC,
                                   VMPtr("memory",
                                         WrapAdd(m.registers[REG_PC].value, 1),
                                         m1.nextId)))
        fetched(f) ==
            IF f.err THEN Throw(m) ELSE executed(executeInstruction(m, f.instr, host))
    IN  IF m.stopped THEN m ELSE fetched(fetch(m))

\* VM.loadProgram(buf)
RECURSIVE writeProgram(_, _, _)
writeProgram(data, buf, i) ==
    IF i > Len(buf) THEN data
    ELSE writeProgram(IntStore(data, i - 1, buf[i]), buf, i + 1)

loadProgram(m, buf) ==
    LET written(m1) == [m1 EXCEPT !.memory = writeProgram(m1.memory, buf, 1)]
    IN  written(reset(m))

(***************************************************************************)
(* Instruction words, as the assembler lays them out (VMAssembler.OPS).    *)
(***************************************************************************)
\* the word with the given fields, low being its 16 low bits
Word(class, s, c0, c1, r0, low) ==
    LET rest == s * Pow2(27) + c0 * Pow2(24) + c1 * Pow2(21) + r0 * Pow2(16) + low
    IN  IF class >= 8 THEN MinInt32 + ((class - 8) * Pow2(28) + rest)
        ELSE class * Pow2(28) + rest

\* a word with a signed 16-bit immediate A
WordA(class, s, c0, c1, r0, A) == Word(class, s, c0, c1, r0, A % 65536)

\* a word with the register fields r1 and r2
WordR(class, s, c0, c1, r0, r1, r2) == Word(class, s, c0, c1, r0, r1 * 256 + r2)

nop == WordA(INSTR_CLASS_NOP, 0, 0, 0, 0, 0)
ipush(A) == WordA(INSTR_CLASS_NOP, 1, 0, 0, 0, A)
exit_i(A) == WordA(INSTR_CLASS_EXIT, 0, 0, 0, 0, A)
exit_r(R) == WordA(INSTR_CLASS_EXIT, 0, 1, 0, R, 0)
push_i(A) == WordA(INSTR_CLASS_PUSH, 0, 0, 0, 0, A)
push_r(R) == WordA(INSTR_CLASS_PUSH, 0, 1, 0, R, 0)
pop(R) == WordA(INSTR_CLASS_POP, 0, 0, 0, R, 0)
ipop_int(R) == WordA(INSTR_CLASS_POP, 0, 1, 0, R, 0)
ipop_ptr(R) == WordA(INSTR_CLASS_POP, 0, 3, 0, R, 0)
ret == WordA(INSTR_CLASS_RET, 0, 0, 0, 0, 0)
get_(Y, X) == WordR(INSTR_CLASS_ENV, 0, 0, 0, Y, X, 0)
load(Y, X) == WordR(INSTR_CLASS_ENV, 0, 2, 0, Y, X, 0)
loadp(Y, Z, X) == WordR(INSTR_CLASS_ENV, 0, 3, 0, Y, X, Z)
set_(X, Y) == WordR(INSTR_CLASS_ENV, 1, 0, 0, Y, X, 0)
b_i(A) == WordA(INSTR_CLASS_B, 0, 0, 0, 0, A)
b_r(R) == WordA(INSTR_CLASS_B, 0, 1, 0, R, 0)
b_abs_i(A) == WordA(INSTR_CLASS_B, 0, 2, 0, 0, A)
b_abs_r(R) == WordA(INSTR_CLASS_B, 0, 3, 0, R, 0)
call_i(A) == WordA(INSTR_CLASS_B, 0, 6, 0, 0, A)
call_r(R) == WordA(INSTR_CLASS_B, 0, 7, 0, R, 0)
bc_i(A) == WordA(INSTR_CLASS_B, 0, 0, 4, 0, A)
bc_r(R) == WordA(INSTR_CLASS_B, 0, 1, 4, R, 0)
bc_abs_i(A) == WordA(INSTR_CLASS_B, 0, 2, 4, 0, A)
callc_i(A) == WordA(INSTR_CLASS_B, 0, 6, 4, 0, A)
\* c.cmp.i .. c.lte.i and c.not, by their c0
c_i(c0, X, A) == WordA(INSTR_CLASS_CMP, 0, c0, 0, X, A)
\* c.cmp.r .. c.nnull, by their c0
c_r(c0, Y, X, Z) == WordR(INSTR_CLASS_CMP, 0, c0, 1, X, Y, Z)
\* cvt.null.i .. cvt.ext.i, by the type
cvt_i(type, Y, A) == WordA(INSTR_CLASS_CVT, 0, type, 0, Y, A)
\* cvt.null.r .. cvt.ext.r, by the type
cvt_r(type, Y, X) == WordR(INSTR_CLASS_CVT, 0, type, 1, Y, 0, X)
\* repr.from.to
repr(from, to, Y, X) == WordR(INSTR_CLASS_CVT, 1, to, 1, Y, from, X)
\* add .. shr, by their c0 and their T (float / second operation) bit
num(c0, T, Z, X, Y) == WordR(INSTR_CLASS_NUM, T, c0, 0, Z, X, Y)
\* read.null .. read.ext, by the type
read(type, Z, X, Y) == WordR(INSTR_CLASS_MEM, 0, type, 0, Z, X, Y)
write(Z, X, Y) == WordR(INSTR_CLASS_MEM, 1, 0, 0, Z, X, Y)
dbg == WordA(INSTR_CLASS_SYS, 0, 0, 0, 0, 0)
dbgp(X) == WordA(INSTR_CLASS_SYS, 0, 1, 0, X, 0)
break == WordA(INSTR_CLASS_SYS, 1, 0, 0, 0, 0)
\* a word of a class that has no handler
reserved == WordA(11, 0, 0, 0, 0, 0)
\* the same instruction with the S bit set and the immediate A
withS(instr, A) == instr + Pow2(27) + (A % 65536)

(***************************************************************************)
(* The session of the embedding page (lines 2029-2033 and 2192-2208): it   *)
(* makes the machine, registers its bindings, loads one program, pushes    *)
(* bootstrap values and then steps or runs it.                             *)
(***************************************************************************)
\* how many values the embedder pushes before the first step
MaxPush == 1
\* how many times step() is called, directly or from run()
MaxSteps == 6

\* the bindings the page registers, in its order
EnvBindings ==
    <<[key |-> <<>>, value |-> HostObject("globalThis")],
      [key |-> <<118, 109, 98, 105, 110, 100>>, value |-> VMEnvFunction("vmbind", 2)]>>

\* the properties of the host objects when the page starts
HostProps ==
    (<<"globalThis", <<110, 101, 119>>>> :> HostFunction("new")) @@
    (<<"globalThis", <<100, 111, 99, 117, 109, 101, 110, 116>>>> :> HostObject("document"))

\* what a host callable may do when it is called
HostBehaviours ==
    {[throws |-> TRUE, res |-> HostUndefined],
     [throws |-> FALSE, res |-> HostUndefined],
     [throws |-> FALSE, res |-> HostObject("document")]}

\* what the host callable of the next step may do: only a call.r or callc.r
\* can reach a host callable
HostFor(m) ==
    LET register(d) == d.class = INSTR_CLASS_B /\ And(d.c0, 4) /\ And(d.c0, 1)
    IN  IF ~m.stopped /\ register(Decode(fetch(m).instr)) THEN HostBehaviours
        ELSE {[throws |-> FALSE, res |-> HostUndefined]}

\* the Values the embedder pushes (their identity is given when they are made)
PushValues ==
    {VMExt(HostFunction("new"), 0), VMExt(VMEnvFunction("vmbind", 2), 0),
     VMPtr("stack", STACK_SIZE - 1, 0)}

\* a VM object before its constructor has run reset()
Blank ==
    [registers |-> [i \in 0..(NUM_REGISTERS - 1) |-> VMNull(i)],
     memory |-> EmptyRegion, stack |-> EmptyRegion, callStack |-> EmptyRegion,
     irs |-> EmptyRegion, csp |-> 0, stopped |-> FALSE, branching |-> FALSE,
     exitValue |-> ExitUndefined, cycles |-> 0, env |-> [k \in {} |-> HostNull],
     props |-> HostProps, lastCall |-> [func |-> HostUndefined, args |-> <<>>],
     nextId |-> NUM_REGISTERS, stackBase |-> 0, err |-> FALSE]

(***************************************************************************)
(* The assembler and the linker.                                           *)
(*                                                                         *)
(* The source text is a sequence of atoms.  A character the assembler      *)
(* tests for stands alone as Chr(c): ";", the line feed, the blank, ",",   *)
(* ":", "$", "#", "&", "^" and the "." that starts a directive.  A maximal *)
(* run of other characters is one atom: Run(s), a word that starts with a  *)
(* letter (a mnemonic, a name), or Lit(n), the decimal numeral of the      *)
(* integer n.  The loop of assemble() appends a character that is no       *)
(* separator to the last token, so feeding it a run at once is feeding it  *)
(* the characters of the run; a token is the sequence of the atoms joined  *)
(* in it and the empty token is the empty string.  Quotes, comments and    *)
(* macros are outside this alphabet: preprocess() returns such a text as   *)
(* it is.                                                                  *)
(***************************************************************************)
Chr(c) == [t |-> "chr", s |-> c, n |-> 0]
Run(s) == [t |-> "run", s |-> s, n |-> 0]
Lit(n) == [t |-> "lit", s |-> "", n |-> n]

\* new VMAssemblerOp(encoding, irs, args): the encoding without its blanks,
\* an argument as <<kind, target>>
VMAssemblerOp(encoding, irs, args) == [encoding |-> encoding, irs |-> irs, args |-> args]

OPS ==
       "ipush" :> VMAssemblerOp(<<"?","?","?","?","1","?","?","?">> \o <<"?","?","?","?","?","?","?","?">> \o <<"A","A","A","A","A","A","A","A">> \o <<"A","A","A","A","A","A","A","A">>,
           FALSE, <<<<"#", "A">>>>)
    @@ "nop" :> VMAssemblerOp(<<"0","0","0","0","S","?","?","?">> \o <<"?","?","?","?","?","?","?","?">> \o <<"A","A","A","A","A","A","A","A">> \o <<"A","A","A","A","A","A","A","A">>,
           TRUE, <<>>)
    @@ "exit.i" :> VMAssemblerOp(<<"0","0","0","1","?","?","?","0">> \o <<"?","?","?","?","?","?","?","?">> \o <<"A","A","A","A","A","A","A","A">> \o <<"A","A","A","A","A","A","A","A">>,
           FALSE, <<<<"#", "A">>>>)
    @@ "exit.r" :> VMAssemblerOp(<<"0","0","0","1","?","?","?","1">> \o <<"?","?","?","R","R","R","R","R">> \o <<"?","?","?","?","?","?","?","?">> \o <<"?","?","?","?","?","?","?","?">>,
           FALSE, <<<<"$", "R">>>>)
    @@ "push.i" :> VMAssemblerOp(<<"0","0","1","0","?","?","?","0">> \o <<"?","?","?","?","?","?","?","?">> \o <<"A","A","A","A","A","A","A","A">> \o <<"A","A","A","A","A","A","A","A">>,
           FALSE, <<<<"#", "A">>>>)
    @@ "push.r" :> VMAssemblerOp(<<"0","0","1","0","S","?","?","1">> \o <<"?","?","?","R","R","R","R","R">> \o <<"A","A","A","A","A","A","A","A">> \o <<"A","A","A","A","A","A","A","A">>,
           TRUE, <<<<"$", "R">>>>)
    @@ "pop" :> VMAssemblerOp(<<"0","0","1","1","S","?","?","0">> \o <<"?","?","?","R","R","R","R","R">> \o <<"A","A","A","A","A","A","A","A">> \o <<"A","A","A","A","A","A","A","A">>,
           TRUE, <<<<"$", "R">>>>)
    @@ "ipop.int" :> VMAssemblerOp(<<"0","0","1","1","S","?","0","1">> \o <<"?","?","?","R","R","R","R","R">> \o <<"A","A","A","A","A","A","A","A">> \o <<"A","A","A","A","A","A","A","A">>,
           TRUE, <<<<"$", "R">>>>)
    @@ "ipop.ptr" :> VMAssemblerOp(<<"0","0","1","1","S","?","1","1">> \o <<"?","?","?","R","R","R","R","R">> \o <<"A","A","A","A","A","A","A","A">> \o <<"A","A","A","A","A","A","A","A">>,
           TRUE, <<<<"$", "R">>>>)
    @@ "ret" :> VMAssemblerOp(<<"0","1","0","0","S","?","?","?">> \o <<"?","?","?","?","?","?","?","?">> \o <<"A","A","A","A","A","A","A","A">> \o <<"A","A","A","A","A","A","A","A">>,
           TRUE, <<>>)
    @@ "get" :> VMAssemblerOp(<<"0","1","0","1","0","?","0","0">> \o <<"?","?","?","Y","Y","Y","Y","Y">> \o <<"?","?","?","X","X","X","X","X">> \o <<"?","?","?","?","?","?","?","?">>,
           FALSE, <<<<"$", "Y">>, <<"$", "X">>>>)
    @@ "getp" :> VMAssemblerOp(<<"0","1","0","1","0","?","0","1">> \o <<"?","?","?","Y","Y","Y","Y","Y">> \o <<"?","?","?","X","X","X","X","X">> \o <<"?","?","?","Z","Z","Z","Z","Z">>,
           FALSE, <<<<"$", "Y">>, <<"$", "Z">>, <<"$", "X">>>>)
    @@ "load" :> VMAssemblerOp(<<"0","1","0","1","0","?","1","0">> \o <<"?","?","?","Y","Y","Y","Y","Y">> \o <<"?","?","?","X","X","X","X","X">> \o <<"?","?","?","?","?","?","?","?">>,
           FALSE, <<<<"$", "Y">>, <<"$", "X">>>>)
    @@ "loadp" :> VMAssemblerOp(<<"0","1","0","1","0","?","1","1">> \o <<"?","?","?","Y","Y","Y","Y","Y">> \o <<"?","?","?","X","X","X","X","X">> \o <<"?","?","?","Z","Z","Z","Z","Z">>,
           FALSE, <<<<"$", "Y">>, <<"$", "Z">>, <<"$", "X">>>>)
    @@ "set" :> VMAssemblerOp(<<"0","1","0","1","1","?","?","0">> \o <<"?","?","?","Y","Y","Y","Y","Y">> \o <<"?","?","?","X","X","X","X","X">> \o <<"?","?","?","?","?","?","?","?">>,
           FALSE, <<<<"$", "X">>, <<"$", "Y">>>>)
    @@ "setp" :> VMAssemblerOp(<<"0","1","0","1","1","?","?","1">> \o <<"?","?","?","Y","Y","Y","Y","Y">> \o <<"?","?","?","X","X","X","X","X">> \o <<"?","?","?","Z","Z","Z","Z","Z">>,
           FALSE, <<<<"$", "Z">>, <<"$", "X">>, <<"$", "Y">>>>)
    @@ "b.i" :> VMAssemblerOp(<<"0","1","1","0","?","0","0","0">> \o <<"0","?","?","?","?","?","?","?">> \o <<"A","A","A","A","A","A","A","A">> \o <<"A","A","A","A","A","A","A","A">>,
           FALSE, <<<<"#", "A">>>>)
    @@ "b.r" :> VMAssemblerOp(<<"0","1","1","0","S","0","0","1">> \o <<"0","?","?","R","R","R","R","R">> \o <<"A","A","A","A","A","A","A","A">> \o <<"A","A","A","A","A","A","A","A">>,
           TRUE, <<<<"$", "R">>>>)
    @@ "b.abs.i" :> VMAssemblerOp(<<"0","1","1","0","?","0","1","0">> \o <<"0","?","?","?","?","?","?","?">> \o <<"A","A","A","A","A","A","A","A">> \o <<"A","A","A","A","A","A","A","A">>,
           FALSE, <<<<"#", "A">>>>)
    @@ "b.abs.r" :> VMAssemblerOp(<<"0","1","1","0","S","0","1","1">> \o <<"0","?","?","R","R","R","R","R">> \o <<"A","A","A","A","A","A","A","A">> \o <<"A","A","A","A","A","A","A","A">>,
           TRUE, <<<<"$", "R">>>>)
    @@ "call.i" :> VMAssemblerOp(<<"0","1","1","0","S","1","1","0">> \o <<"0","?","?","?","?","?","?","?">> \o <<"A","A","A","A","A","A","A","A">> \o <<"A","A","A","A","A","A","A","A">>,
           TRUE, <<<<"#", "A">>>>)
    @@ "call.r" :> VMAssemblerOp(<<"0","1","1","0","S","1","1","1">> \o <<"0","?","?","R","R","R","R","R">> \o <<"A","A","A","A","A","A","A","A">> \o <<"A","A","A","A","A","A","A","A">>,
           TRUE, <<<<"$", "R">>>>)
    @@ "bc.i" :> VMAssemblerOp(<<"0","1","1","0","?","0","0","0">> \o <<"1","?","?","?","?","?","?","?">> \o <<"A","A","A","A","A","A","A","A">> \o <<"A","A","A","A","A","A","A","A">>,
           FALSE, <<<<"#", "A">>>>)
    @@ "bc.r" :> VMAssemblerOp(<<"0","1","1","0","S","0","0","1">> \o <<"1","?","?","R","R","R","R","R">> \o <<"A","A","A","A","A","A","A","A">> \o <<"A","A","A","A","A","A","A","A">>,
           TRUE, <<<<"$", "R">>>>)
    @@ "bc.abs.i" :> VMAssemblerOp(<<"0","1","1","0","?","0","1","0">> \o <<"1","?","?","?","?","?","?","?">> \o <<"A","A","A","A","A","A","A","A">> \o <<"A","A","A","A","A","A","A","A">>,
           FALSE, <<<<"#", "A">>>>)
    @@ "bc.abs.r" :> VMAssemblerOp(<<"0","1","1","0","S","0","1","1">> \o <<"1","?","?","R","R","R","R","R">> \o <<"A","A","A","A","A","A","A","A">> \o <<"A","A","A","A","A","A","A","A">>,
           TRUE, <<<<"$", "R">>>>)
    @@ "callc.i" :> VMAssemblerOp(<<"0","1","1","0","S","1","1","0">> \o <<"1","?","?","?","?","?","?","?">> \o <<"A","A","A","A","A","A","A","A">> \o <<"A","A","A","A","A","A","A","A">>,
           TRUE, <<<<"#", "A">>>>)
    @@ "callc.r" :> VMAssemblerOp(<<"0","1","1","0","S","1","1","1">> \o <<"1","?","?","R","R","R","R","R">> \o <<"A","A","A","A","A","A","A","A">> \o <<"A","A","A","A","A","A","A","A">>,
           TRUE, <<<<"$", "R">>>>)
    @@ "c.cmp.i" :> VMAssemblerOp(<<"0","1","1","1","S","0","0","0">> \o <<"?","?","0","X","X","X","X","X">> \o <<"A","A","A","A","A","A","A","A">> \o <<"A","A","A","A","A","A","A","A">>,
           FALSE, <<<<"$", "X">>, <<"#", "A">>>>)
    @@ "c.eq.i" :> VMAssemblerOp(<<"0","1","1","1","S","0","0","1">> \o <<"?","?","0","X","X","X","X","X">> \o <<"A","A","A","A","A","A","A","A">> \o <<"A","A","A","A","A","A","A","A">>,
           FALSE, <<<<"$", "X">>, <<"#", "A">>>>)
    @@ "c.lt.i" :> VMAssemblerOp(<<"0","1","1","1","S","0","1","0">> \o <<"?","?","0","X","X","X","X","X">> \o <<"A","A","A","A","A","A","A","A">> \o <<"A","A","A","A","A","A","A","A">>,
           FALSE, <<<<"$", "X">>, <<"#", "A">>>>)
    @@ "c.gt.i" :> VMAssemblerOp(<<"0","1","1","1","S","0","1","1">> \o <<"?","?","0","X","X","X","X","X">> \o <<"A","A","A","A","A","A","A","A">> \o <<"A","A","A","A","A","A","A","A">>,
           FALSE, <<<<"$", "X">>, <<"#", "A">>>>)
    @@ "c.not" :> VMAssemblerOp(<<"0","1","1","1","S","1","0","0">> \o <<"?","?","0","X","X","X","X","X">> \o <<"A","A","A","A","A","A","A","A">> \o <<"A","A","A","A","A","A","A","A">>,
           TRUE, <<<<"$", "X">>>>)
    @@ "c.neq.i" :> VMAssemblerOp(<<"0","1","1","1","S","1","0","1">> \o <<"?","?","0","X","X","X","X","X">> \o <<"A","A","A","A","A","A","A","A">> \o <<"A","A","A","A","A","A","A","A">>,
           FALSE, <<<<"$", "X">>, <<"#", "A">>>>)
    @@ "c.gte.i" :> VMAssemblerOp(<<"0","1","1","1","S","1","1","0">> \o <<"?","?","0","X","X","X","X","X">> \o <<"A","A","A","A","A","A","A","A">> \o <<"A","A","A","A","A","A","A","A">>,
           FALSE, <<<<"$", "X">>, <<"#", "A">>>>)
    @@ "c.lte.i" :> VMAssemblerOp(<<"0","1","1","1","S","1","1","1">> \o <<"?","?","0","X","X","X","X","X">> \o <<"A","A","A","A","A","A","A","A">> \o <<"A","A","A","A","A","A","A","A">>,
           FALSE, <<<<"$", "X">>, <<"#", "A">>>>)
    @@ "c.cmp.r" :> VMAssemblerOp(<<"0","1","1","1","?","0","0","0">> \o <<"?","?","1","X","X","X","X","X">> \o <<"?","?","?","Y","Y","Y","Y","Y">> \o <<"?","?","?","Z","Z","Z","Z","Z">>,
           FALSE, <<<<"$", "Y">>, <<"$", "X">>, <<"$", "Z">>>>)
    @@ "c.eq.r" :> VMAssemblerOp(<<"0","1","1","1","?","0","0","1">> \o <<"?","?","1","X","X","X","X","X">> \o <<"?","?","?","Y","Y","Y","Y","Y">> \o <<"?","?","?","Z","Z","Z","Z","Z">>,
           FALSE, <<<<"$", "Y">>, <<"$", "X">>, <<"$", "Z">>>>)
    @@ "c.lt.r" :> VMAssemblerOp(<<"0","1","1","1","?","0","1","0">> \o <<"?","?","1","X","X","X","X","X">> \o <<"?","?","?","Y","Y","Y","Y","Y">> \o <<"?","?","?","Z","Z","Z","Z","Z">>,
           FALSE, <<<<"$", "Y">>, <<"$", "X">>, <<"$", "Z">>>>)
    @@ "c.null" :> VMAssemblerOp(<<"0","1","1","1","?","0","1","1">> \o <<"?","?","1","X","X","X","X","X">> \o <<"?","?","?","Y","Y","Y","Y","Y">> \o <<"?","?","?","?","?","?","?","?">>,
           FALSE, <<<<"$", "Y">>, <<"$", "X">>>>)
    @@ "c.same" :> VMAssemblerOp(<<"0","1","1","1","?","1","0","0">> \o <<"?","?","1","X","X","X","X","X">> \o <<"?","?","?","Y","Y","Y","Y","Y">> \o <<"?","?","?","Z","Z","Z","Z","Z">>,
           FALSE, <<<<"$", "Y">>, <<"$", "X">>, <<"$", "Z">>>>)
    @@ "c.neq.r" :> VMAssemblerOp(<<"0","1","1","1","?","1","0","1">> \o <<"?","?","1","X","X","X","X","X">> \o <<"?","?","?","Y","Y","Y","Y","Y">> \o <<"?","?","?","Z","Z","Z","Z","Z">>,
           FALSE, <<<<"$", "Y">>, <<"$", "X">>, <<"$", "Z">>>>)
    @@ "c.gte.r" :> VMAssemblerOp(<<"0","1","1","1","?","1","1","0">> \o <<"?","?","1","X","X","X","X","X">> \o <<"?","?","?","Y","Y","Y","Y","Y">> \o <<"?","?","?","Z","Z","Z","Z","Z">>,
           FALSE, <<<<"$", "Y">>, <<"$", "X">>, <<"$", "Z">>>>)
    @@ "c.nnull" :> VMAssemblerOp(<<"0","1","1","1","?","1","1","1">> \o <<"?","?","1","X","X","X","X","X">> \o <<"?","?","?","Y","Y","Y","Y","Y">> \o <<"?","?","?","?","?","?","?","?">>,
           FALSE, <<<<"$", "Y">>, <<"$", "X">>>>)
    @@ "cvt.null.i" :> VMAssemblerOp(<<"1","0","0","0","S","0","0","0">> \o <<"?","?","0","Y","Y","Y","Y","Y">> \o <<"A","A","A","A","A","A","A","A">> \o <<"A","A","A","A","A","A","A","A">>,
           TRUE, <<<<"$", "Y">>, <<"#", "A">>>>)
    @@ "cvt.int.i" :> VMAssemblerOp(<<"1","0","0","0","S","0","0","1">> \o <<"?","?","0","Y","Y","Y","Y","Y">> \o <<"A","A","A","A","A","A","A","A">> \o <<"A","A","A","A","A","A","A","A">>,
           FALSE, <<<<"$", "Y">>, <<"#", "A">>>>)
    @@ "cvt.float.i" :> VMAssemblerOp(<<"1","0","0","0","S","0","1","0">> \o <<"?","?","0","Y","Y","Y","Y","Y">> \o <<"A","A","A","A","A","A","A","A">> \o <<"A","A","A","A","A","A","A","A">>,
           FALSE, <<<<"$", "Y">>, <<"#", "A">>>>)
    @@ "cvt.ptr.i" :> VMAssemblerOp(<<"1","0","0","0","S","0","1","1">> \o <<"?","?","0","Y","Y","Y","Y","Y">> \o <<"A","A","A","A","A","A","A","A">> \o <<"A","A","A","A","A","A","A","A">>,
           FALSE, <<<<"$", "Y">>, <<"#", "A">>>>)
    @@ "cvt.ext.i" :> VMAssemblerOp(<<"1","0","0","0","S","1","0","0">> \o <<"?","?","0","Y","Y","Y","Y","Y">> \o <<"A","A","A","A","A","A","A","A">> \o <<"A","A","A","A","A","A","A","A">>,
           FALSE, <<<<"$", "Y">>, <<"#", "A">>>>)
    @@ "cvt.null.r" :> VMAssemblerOp(<<"1","0","0","0","0","0","0","0">> \o <<"?","?","1","Y","Y","Y","Y","Y">> \o <<"?","?","?","?","?","?","?","?">> \o <<"?","?","?","X","X","X","X","X">>,
           FALSE, <<<<"$", "Y">>, <<"$", "X">>>>)
    @@ "cvt.int.r" :> VMAssemblerOp(<<"1","0","0","0","0","0","0","1">> \o <<"?","?","1","Y","Y","Y","Y","Y">> \o <<"?","?","?","?","?","?","?","?">> \o <<"?","?","?","X","X","X","X","X">>,
           FALSE, <<<<"$", "Y">>, <<"$", "X">>>>)
    @@ "cvt.float.r" :> VMAssemblerOp(<<"1","0","0","0","0","0","1","0">> \o <<"?","?","1","Y","Y","Y","Y","Y">> \o <<"?","?","?","?","?","?","?","?">> \o <<"?","?","?","X","X","X","X","X">>,
           FALSE, <<<<"$", "Y">>, <<"$", "X">>>>)
    @@ "cvt.ptr.r" :> VMAssemblerOp(<<"1","0","0","0","0","0","1","1">> \o <<"?","?","1","Y","Y","Y","Y","Y">> \o <<"?","?","?","?","?","?","?","?">> \o <<"?","?","?","X","X","X","X","X">>,
           FALSE, <<<<"$", "Y">>, <<"$", "X">>>>)
    @@ "cvt.ext.r" :> VMAssemblerOp(<<"1","0","0","0","0","1","0","0">> \o <<"?","?","1","Y","Y","Y","Y","Y">> \o <<"?","?","?","?","?","?","?","?">> \o <<"?","?","?","X","X","X","X","X">>,
           FALSE, <<<<"$", "Y">>, <<"$", "X">>>>)
    @@ "repr.null.null" :> VMAssemblerOp(<<"1","0","0","0","1","0","0","0">> \o <<"?","?","1","Y","Y","Y","Y","Y">> \o <<"?","?","?","0","0","0","0","0">> \o <<"?","?","?","X","X","X","X","X">>,
           FALSE, <<<<"$", "Y">>, <<"$", "X">>>>)
    @@ "repr.null.int" :> VMAssemblerOp(<<"1","0","0","0","1","0","0","1">> \o <<"?","?","1","Y","Y","Y","Y","Y">> \o <<"?","?","?","0","0","0","0","0">> \o <<"?","?","?","X","X","X","X","X">>,
           FALSE, <<<<"$", "Y">>, <<"$", "X">>>>)
    @@ "repr.null.float" :> VMAssemblerOp(<<"1","0","0","0","1","0","1","0">> \o <<"?","?","1","Y","Y","Y","Y","Y">> \o <<"?","?","?","0","0","0","0","0">> \o <<"?","?","?","X","X","X","X","X">>,
           FALSE, <<<<"$", "Y">>, <<"$", "X">>>>)
    @@ "repr.null.ptr" :> VMAssemblerOp(<<"1","0","0","0","1","0","1","1">> \o <<"?","?","1","Y","Y","Y","Y","Y">> \o <<"?","?","?","0","0","0","0","0">> \o <<"?","?","?","X","X","X","X","X">>,
           FALSE, <<<<"$", "Y">>, <<"$", "X">>>>)
    @@ "repr.null.ext" :> VMAssemblerOp(<<"1","0","0","0","1","1","0","0">> \o <<"?","?","1","Y","Y","Y","Y","Y">> \o <<"?","?","?","0","0","0","0","0">> \o <<"?","?","?","X","X","X","X","X">>,
           FALSE, <<<<"$", "Y">>, <<"$", "X">>>>)
    @@ "repr.int.null" :> VMAssemblerOp(<<"1","0","0","0","1","0","0","0">> \o <<"?","?","1","Y","Y","Y","Y","Y">> \o <<"?","?","?","0","0","0","0","1">> \o <<"?","?","?","X","X","X","X","X">>,
           FALSE, <<<<"$", "Y">>, <<"$", "X">>>>)
    @@ "repr.int.int" :> VMAssemblerOp(<<"1","0","0","0","1","0","0","1">> \o <<"?","?","1","Y","Y","Y","Y","Y">> \o <<"?","?","?","0","0","0","0","1">> \o <<"?","?","?","X","X","X","X","X">>,
           FALSE, <<<<"$", "Y">>, <<"$", "X">>>>)
    @@ "repr.int.float" :> VMAssemblerOp(<<"1","0","0","0","1","0","1","0">> \o <<"?","?","1","Y","Y","Y","Y","Y">> \o <<"?","?","?","0","0","0","0","1">> \o <<"?","?","?","X","X","X","X","X">>,
           FALSE, <<<<"$", "Y">>, <<"$", "X">>>>)
    @@ "repr.int.ptr" :> VMAssemblerOp(<<"1","0","0","0","1","0","1","1">> \o <<"?","?","1","Y","Y","Y","Y","Y">> \o <<"?","?","?","0","0","0","0","1">> \o <<"?","?","?","X","X","X","X","X">>,
           FALSE, <<<<"$", "Y">>, <<"$", "X">>>>)
    @@ "repr.int.ext" :> VMAssemblerOp(<<"1","0","0","0","1","1","0","0">> \o <<"?","?","1","Y","Y","Y","Y","Y">> \o <<"?","?","?","0","0","0","0","1">> \o <<"?","?","?","X","X","X","X","X">>,
           FALSE, <<<<"$", "Y">>, <<"$", "X">>>>)
    @@ "repr.float.null" :> VMAssemblerOp(<<"1","0","0","0","1","0","0","0">> \o <<"?","?","1","Y","Y","Y","Y","Y">> \o <<"?","?","?","0","0","0","1","0">> \o <<"?","?","?","X","X","X","X","X">>,
           FALSE, <<<<"$", "Y">>, <<"$", "X">>>>)
    @@ "repr.float.int" :> VMAssemblerOp(<<"1","0","0","0","1","0","0","1">> \o <<"?","?","1","Y","Y","Y","Y","Y">> \o <<"?","?","?","0","0","0","1","0">> \o <<"?","?","?","X","X","X","X","X">>,
           FALSE, <<<<"$", "Y">>, <<"$", "X">>>>)
    @@ "repr.float.float" :> VMAssemblerOp(<<"1","0","0","0","1","0","1","0">> \o <<"?","?","1","Y","Y","Y","Y","Y">> \o <<"?","?","?","0","0","0","1","0">> \o <<"?","?","?","X","X","X","X","X">>,
           FALSE, <<<<"$", "Y">>, <<"$", "X">>>>)
    @@ "repr.float.ptr" :> VMAssemblerOp(<<"1","0","0","0","1","0","1","1">> \o <<"?","?","1","Y","Y","Y","Y","Y">> \o <<"?","?","?","0","0","0","1","0">> \o <<"?","?","?","X","X","X","X","X">>,
           FALSE, <<<<"$", "Y">>, <<"$", "X">>>>)
    @@ "repr.float.ext" :> VMAssemblerOp(<<"1","0","0","0","1","1","0","0">> \o <<"?","?","1","Y","Y","Y","Y","Y">> \o <<"?","?","?","0","0","0","1","0">> \o <<"?","?","?","X","X","X","X","X">>,
           FALSE, <<<<"$", "Y">>, <<"$", "X">>>>)
    @@ "repr.ptr.null" :> VMAssemblerOp(<<"1","0","0","0","1","0","0","0">> \o <<"?","?","1","Y","Y","Y","Y","Y">> \o <<"?","?","?","0","0","0","1","1">> \o <<"?","?","?","X","X","X","X","X">>,
           FALSE, <<<<"$", "Y">>, <<"$", "X">>>>)
    @@ "repr.ptr.int" :> VMAssemblerOp(<<"1","0","0","0","1","0","0","1">> \o <<"?","?","1","Y","Y","Y","Y","Y">> \o <<"?","?","?","0","0","0","1","1">> \o <<"?","?","?","X","X","X","X","X">>,
           FALSE, <<<<"$", "Y">>, <<"$", "X">>>>)
    @@ "repr.ptr.float" :> VMAssemblerOp(<<"1","0","0","0","1","0","1","0">> \o <<"?","?","1","Y","Y","Y","Y","Y">> \o <<"?","?","?","0","0","0","1","1">> \o <<"?","?","?","X","X","X","X","X">>,
           FALSE, <<<<"$", "Y">>, <<"$", "X">>>>)
    @@ "repr.ptr.ptr" :> VMAssemblerOp(<<"1","0","0","0","1","0","1","1">> \o <<"?","?","1","Y","Y","Y","Y","Y">> \o <<"?","?","?","0","0","0","1","1">> \o <<"?","?","?","X","X","X","X","X">>,
           FALSE, <<<<"$", "Y">>, <<"$", "X">>>>)
    @@ "repr.ptr.ext" :> VMAssemblerOp(<<"1","0","0","0","1","1","0","0">> \o <<"?","?","1","Y","Y","Y","Y","Y">> \o <<"?","?","?","0","0","0","1","1">> \o <<"?","?","?","X","X","X","X","X">>,
           FALSE, <<<<"$", "Y">>, <<"$", "X">>>>)
    @@ "repr.ext.null" :> VMAssemblerOp(<<"1","0","0","0","1","0","0","0">> \o <<"?","?","1","Y","Y","Y","Y","Y">> \o <<"?","?","?","0","0","1","0","0">> \o <<"?","?","?","X","X","X","X","X">>,
           FALSE, <<<<"$", "Y">>, <<"$", "X">>>>)
    @@ "repr.ext.int" :> VMAssemblerOp(<<"1","0","0","0","1","0","0","1">> \o <<"?","?","1","Y","Y","Y","Y","Y">> \o <<"?","?","?","0","0","1","0","0">> \o <<"?","?","?","X","X","X","X","X">>,
           FALSE, <<<<"$", "Y">>, <<"$", "X">>>>)
    @@ "repr.ext.float" :> VMAssemblerOp(<<"1","0","0","0","1","0","1","0">> \o <<"?","?","1","Y","Y","Y","Y","Y">> \o <<"?","?","?","0","0","1","0","0">> \o <<"?","?","?","X","X","X","X","X">>,
           FALSE, <<<<"$", "Y">>, <<"$", "X">>>>)
    @@ "repr.ext.ptr" :> VMAssemblerOp(<<"1","0","0","0","1","0","1","1">> \o <<"?","?","1","Y","Y","Y","Y","Y">> \o <<"?","?","?","0","0","1","0","0">> \o <<"?","?","?","X","X","X","X","X">>,
           FALSE, <<<<"$", "Y">>, <<"$", "X">>>>)
    @@ "repr.ext.ext" :> VMAssemblerOp(<<"1","0","0","0","1","1","0","0">> \o <<"?","?","1","Y","Y","Y","Y","Y">> \o <<"?","?","?","0","0","1","0","0">> \o <<"?","?","?","X","X","X","X","X">>,
           FALSE, <<<<"$", "Y">>, <<"$", "X">>>>)
    @@ "add" :> VMAssemblerOp(<<"1","0","0","1","0","0","0","0">> \o <<"?","?","?","Z","Z","Z","Z","Z">> \o <<"?","?","?","X","X","X","X","X">> \o <<"?","?","?","Y","Y","Y","Y","Y">>,
           FALSE, <<<<"$", "Z">>, <<"$", "X">>, <<"$", "Y">>>>)
    @@ "add.f" :> VMAssemblerOp(<<"1","0","0","1","1","0","0","0">> \o <<"?","?","?","Z","Z","Z","Z","Z">> \o <<"?","?","?","X","X","X","X","X">> \o <<"?","?","?","Y","Y","Y","Y","Y">>,
           FALSE, <<<<"$", "Z">>, <<"$", "X">>, <<"$", "Y">>>>)
    @@ "sub" :> VMAssemblerOp(<<"1","0","0","1","0","0","0","1">> \o <<"?","?","?","Z","Z","Z","Z","Z">> \o <<"?","?","?","X","X","X","X","X">> \o <<"?","?","?","Y","Y","Y","Y","Y">>,
           FALSE, <<<<"$", "Z">>, <<"$", "X">>, <<"$", "Y">>>>)
    @@ "sub.f" :> VMAssemblerOp(<<"1","0","0","1","1","0","0","1">> \o <<"?","?","?","Z","Z","Z","Z","Z">> \o <<"?","?","?","X","X","X","X","X">> \o <<"?","?","?","Y","Y","Y","Y","Y">>,
           FALSE, <<<<"$", "Z">>, <<"$", "X">>, <<"$", "Y">>>>)
    @@ "mult" :> VMAssemblerOp(<<"1","0","0","1","0","0","1","0">> \o <<"?","?","?","Z","Z","Z","Z","Z">> \o <<"?","?","?","X","X","X","X","X">> \o <<"?","?","?","Y","Y","Y","Y","Y">>,
           FALSE, <<<<"$", "Z">>, <<"$", "X">>, <<"$", "Y">>>>)
    @@ "mult.f" :> VMAssemblerOp(<<"1","0","0","1","1","0","1","0">> \o <<"?","?","?","Z","Z","Z","Z","Z">> \o <<"?","?","?","X","X","X","X","X">> \o <<"?","?","?","Y","Y","Y","Y","Y">>,
           FALSE, <<<<"$", "Z">>, <<"$", "X">>, <<"$", "Y">>>>)
    @@ "div" :> VMAssemblerOp(<<"1","0","0","1","0","0","1","1">> \o <<"?","?","?","Z","Z","Z","Z","Z">> \o <<"?","?","?","X","X","X","X","X">> \o <<"?","?","?","Y","Y","Y","Y","Y">>,
           FALSE, <<<<"$", "Z">>, <<"$", "X">>, <<"$", "Y">>>>)
    @@ "div.f" :> VMAssemblerOp(<<"1","0","0","1","1","0","1","1">> \o <<"?","?","?","Z","Z","Z","Z","Z">> \o <<"?","?","?","X","X","X","X","X">> \o <<"?","?","?","Y","Y","Y","Y","Y">>,
           FALSE, <<<<"$", "Z">>, <<"$", "X">>, <<"$", "Y">>>>)
    @@ "mod" :> VMAssemblerOp(<<"1","0","0","1","0","1","0","0">> \o <<"?","?","?","Z","Z","Z","Z","Z">> \o <<"?","?","?","X","X","X","X","X">> \o <<"?","?","?","Y","Y","Y","Y","Y">>,
           FALSE, <<<<"$", "Z">>, <<"$", "X">>, <<"$", "Y">>>>)
    @@ "mod.f" :> VMAssemblerOp(<<"1","0","0","1","1","1","0","0">> \o <<"?","?","?","Z","Z","Z","Z","Z">> \o <<"?","?","?","X","X","X","X","X">> \o <<"?","?","?","Y","Y","Y","Y","Y">>,
           FALSE, <<<<"$", "Z">>, <<"$", "X">>, <<"$", "Y">>>>)
    @@ "and" :> VMAssemblerOp(<<"1","0","0","1","0","1","0","1">> \o <<"?","?","?","Z","Z","Z","Z","Z">> \o <<"?","?","?","X","X","X","X","X">> \o <<"?","?","?","Y","Y","Y","Y","Y">>,
           FALSE, <<<<"$", "Z">>, <<"$", "X">>, <<"$", "Y">>>>)
    @@ "or" :> VMAssemblerOp(<<"1","0","0","1","1","1","0","1">> \o <<"?","?","?","Z","Z","Z","Z","Z">> \o <<"?","?","?","X","X","X","X","X">> \o <<"?","?","?","Y","Y","Y","Y","Y">>,
           FALSE, <<<<"$", "Z">>, <<"$", "X">>, <<"$", "Y">>>>)
    @@ "xor" :> VMAssemblerOp(<<"1","0","0","1","0","1","1","0">> \o <<"?","?","?","Z","Z","Z","Z","Z">> \o <<"?","?","?","X","X","X","X","X">> \o <<"?","?","?","Y","Y","Y","Y","Y">>,
           FALSE, <<<<"$", "Z">>, <<"$", "X">>, <<"$", "Y">>>>)
    @@ "xnor" :> VMAssemblerOp(<<"1","0","0","1","1","1","1","0">> \o <<"?","?","?","Z","Z","Z","Z","Z">> \o <<"?","?","?","X","X","X","X","X">> \o <<"?","?","?","Y","Y","Y","Y","Y">>,
           FALSE, <<<<"$", "Z">>, <<"$", "X">>, <<"$", "Y">>>>)
    @@ "shl" :> VMAssemblerOp(<<"1","0","0","1","0","1","1","1">> \o <<"?","?","?","Z","Z","Z","Z","Z">> \o <<"?","?","?","X","X","X","X","X">> \o <<"?","?","?","Y","Y","Y","Y","Y">>,
           FALSE, <<<<"$", "Z">>, <<"$", "X">>, <<"$", "Y">>>>)
    @@ "shr" :> VMAssemblerOp(<<"1","0","0","1","1","1","1","1">> \o <<"?","?","?","Z","Z","Z","Z","Z">> \o <<"?","?","?","X","X","X","X","X">> \o <<"?","?","?","Y","Y","Y","Y","Y">>,
           FALSE, <<<<"$", "Z">>, <<"$", "X">>, <<"$", "Y">>>>)
    @@ "read.null" :> VMAssemblerOp(<<"1","0","1","0","0","0","0","0">> \o <<"?","?","?","Z","Z","Z","Z","Z">> \o <<"?","?","?","X","X","X","X","X">> \o <<"?","?","?","Y","Y","Y","Y","Y">>,
           FALSE, <<<<"$", "Z">>, <<"$", "X">>, <<"$", "Y">>>>)
    @@ "read.int" :> VMAssemblerOp(<<"1","0","1","0","0","0","0","1">> \o <<"?","?","?","Z","Z","Z","Z","Z">> \o <<"?","?","?","X","X","X","X","X">> \o <<"?","?","?","Y","Y","Y","Y","Y">>,
           FALSE, <<<<"$", "Z">>, <<"$", "X">>, <<"$", "Y">>>>)
    @@ "read.float" :> VMAssemblerOp(<<"1","0","1","0","0","0","1","0">> \o <<"?","?","?","Z","Z","Z","Z","Z">> \o <<"?","?","?","X","X","X","X","X">> \o <<"?","?","?","Y","Y","Y","Y","Y">>,
           FALSE, <<<<"$", "Z">>, <<"$", "X">>, <<"$", "Y">>>>)
    @@ "read.ptr" :> VMAssemblerOp(<<"1","0","1","0","0","0","1","1">> \o <<"?","?","?","Z","Z","Z","Z","Z">> \o <<"?","?","?","X","X","X","X","X">> \o <<"?","?","?","Y","Y","Y","Y","Y">>,
           FALSE, <<<<"$", "Z">>, <<"$", "X">>, <<"$", "Y">>>>)
    @@ "read.ext" :> VMAssemblerOp(<<"1","0","1","0","0","1","0","0">> \o <<"?","?","?","Z","Z","Z","Z","Z">> \o <<"?","?","?","X","X","X","X","X">> \o <<"?","?","?","Y","Y","Y","Y","Y">>,
           FALSE, <<<<"$", "Z">>, <<"$", "X">>, <<"$", "Y">>>>)
    @@ "write" :> VMAssemblerOp(<<"1","0","1","0","1","?","?","?">> \o <<"?","?","?","Z","Z","Z","Z","Z">> \o <<"?","?","?","X","X","X","X","X">> \o <<"?","?","?","Y","Y","Y","Y","Y">>,
           FALSE, <<<<"$", "Z">>, <<"$", "X">>, <<"$", "Y">>>>)
    @@ "dbg" :> VMAssemblerOp(<<"1","1","1","1","0","?","?","0">> \o <<"?","?","?","?","?","?","?","?">> \o <<"?","?","?","?","?","?","?","?">> \o <<"?","?","?","?","?","?","?","?">>,
           FALSE, <<>>)
    @@ "dbgp" :> VMAssemblerOp(<<"1","1","1","1","0","?","?","1">> \o <<"?","?","?","X","X","X","X","X">> \o <<"?","?","?","?","?","?","?","?">> \o <<"?","?","?","?","?","?","?","?">>,
           FALSE, <<<<"$", "X">>>>)
    @@ "break" :> VMAssemblerOp(<<"1","1","1","1","1","?","?","?">> \o <<"?","?","?","?","?","?","?","?">> \o <<"?","?","?","?","?","?","?","?">> \o <<"?","?","?","?","?","?","?","?">>,
           FALSE, <<>>)

DIRECTIVE_METHODS ==
    "int" :> "directiveInt" @@ "float" :> "directiveFloat" @@ "ptr" :> "directivePtr"
        @@ "utf8" :> "directiveUtf8" @@ "string" :> "directiveUtf8"
        @@ "str" :> "directiveUtf8"

REGISTER_NAMES ==
    "ZERO" :> REG_ZERO @@ "COMP" :> REG_COMP @@ "PC" :> REG_PC @@ "P0" :> REG_P0
        @@ "P1" :> REG_P1 @@ "IRSP" :> REG_IRSP @@ "IPOP" :> REG_IPOP
        @@ "IPTR" :> REG_IPTR @@ "SP" :> REG_SP @@ "PUSH" :> REG_PUSH
        @@ "POP" :> REG_POP

\* the property names every plain JS object inherits: `name in obj` is true
\* of them and obj[name] is a function or an object, never undefined
ObjectPrototypeNames ==
    {"constructor", "toString", "toLocaleString", "valueOf", "hasOwnProperty",
     "isPrototypeOf", "propertyIsEnumerable", "__proto__", "__defineGetter__",
     "__defineSetter__", "__lookupGetter__", "__lookupSetter__"}

\* the words of the texts that match /^[A-Za-z_][A-Za-z0-9_]+?$/ : a word
\* of two characters or more without a dot
Identifiers ==
    {"start", "loop", "done", "aa", "bb", "toString", "int", "float", "ptr", "str",
     "utf8", "string", "word", "ipush", "nop", "ret", "pop", "add", "sub", "get",
     "load"}

\* isIdentifier(str) of a token
isIdentifier(str) == Len(str) = 1 /\ str[1].t = "run" /\ str[1].s \in Identifiers

\* Number(str) of a token: the empty string is 0, a numeral its integer,
\* anything else NaN
Number(str) ==
    IF str = <<>> THEN [nan |-> FALSE, n |-> 0]
    ELSE IF Len(str) = 1 /\ str[1].t = "lit" THEN [nan |-> FALSE, n |-> str[1].n]
    ELSE [nan |-> TRUE, n |-> 0]

(***************************************************************************)
(* VMBytecodeObject.  data is the array of words, err tells that a method  *)
(* threw.                                                                  *)
(***************************************************************************)
VMBytecodeRelocation(rel, addr, label) == [rel |-> rel, addr |-> addr, label |-> label]

VMBytecodeObject ==
    [data |-> <<>>, labels |-> [k \in {} |-> 0], relocations |-> <<>>, addr |-> 0,
     err |-> FALSE]

\* this.data[addr] = num of a JS array: an index past the end lengthens it
ArrayStore(data, addr, word) ==
    IF addr < Len(data) THEN [data EXCEPT ![addr + 1] = word]
    ELSE data \o [i \in 1..(addr - Len(data)) |-> 0] \o <<word>>

pushInt(obj, word) ==
    [obj EXCEPT !.data = ArrayStore(@, obj.addr, word), !.addr = @ + 1]

pushFloat(obj, n) == pushInt(obj, F32OfInt(n))

\* name in this.labels
HasLabel(obj, name) == name \in DOMAIN obj.labels \/ name \in ObjectPrototypeNames

addLabel(obj, name, offset) ==
    IF HasLabel(obj, name) THEN Throw(obj)
    ELSE [obj EXCEPT !.labels = (name :> (obj.addr + offset)) @@ @]

addRelocation(obj, rel, name, offset) ==
    [obj EXCEPT !.relocations = Append(@, VMBytecodeRelocation(rel, obj.addr + offset, name))]

(***************************************************************************)
(* The directives.  An argument is a token.                                *)
(***************************************************************************)
\* args[i].startsWith("#") ? args[i].slice(1) : args[i]
Unhashed(arg) == IF arg # <<>> /\ arg[1] = Chr("#") THEN Tail(arg) ELSE arg

RECURSIVE directiveInt(_, _)
directiveInt(obj, args) ==
    LET pushed(n) ==
            IF n.nan THEN Throw(obj) ELSE directiveInt(pushInt(obj, n.n), Tail(args))
    IN  IF args = <<>> \/ obj.err THEN obj ELSE pushed(Number(Unhashed(Head(args))))

RECURSIVE directiveFloat(_, _)
directiveFloat(obj, args) ==
    LET pushed(n) ==
            IF n.nan THEN Throw(obj) ELSE directiveFloat(pushFloat(obj, n.n), Tail(args))
    IN  IF args = <<>> \/ obj.err THEN obj ELSE pushed(Number(Unhashed(Head(args))))

directivePtr(obj, args) == directiveInt(obj, args)

\* JSON.parse(args[0]) throws on no argument and on a token that is no JSON
\* text; a numeral, true, false or null parse, and encodeStringUtf8 of them
\* throws (no length, or a read past the end of an empty buffer)
directiveUtf8(obj, args) == Throw(obj)

\* textObj.apply(this[methodName], args)
ApplyDirective(obj, methodName, args) ==
    CASE methodName = "directiveInt" -> directiveInt(obj, args)
      [] methodName = "directiveFloat" -> directiveFloat(obj, args)
      [] methodName = "directivePtr" -> directivePtr(obj, args)
      [] OTHER -> directiveUtf8(obj, args)

(***************************************************************************)
(* The encoder of assemble() (lines 1773-1836).                            *)
(***************************************************************************)
\* n.toString(2) of an integer n >= 0, as the sequence of its digits
RECURSIVE ToBinary(_)
ToBinary(n) == IF n < 2 THEN <<n>> ELSE Append(ToBinary(n \div 2), n % 2)

\* str.padStart(width, "0")
padStart(str, width) ==
    IF Len(str) >= width THEN str ELSE [i \in 1..(width - Len(str)) |-> 0] \o str

\* (ident >>> 0).toString(2): of a negative ident, the 32 digits of its
\* two's complement
UnsignedBinary(ident) ==
    IF ident >= 0 THEN ToBinary(ident) ELSE <<1>> \o padStart(ToBinary(Low31(ident)), 31)

\* op.encoding.filter((e) => e == target).length
FieldWidth(encoding, target) == Cardinality({j \in 1..Len(encoding) : encoding[j] = target})

\* the word of 32 binary digits, most significant first, as an int32
FromBinary(bits) ==
    LET low(k) == IF k = 0 THEN 0 ELSE bits[k + 1] * Pow2(31 - k)
        RECURSIVE sum(_)
        sum(k) == IF k = 0 THEN 0 ELSE low(k) + sum(k - 1)
    IN  IF bits[1] = 1 THEN MinInt32 + sum(31) ELSE sum(31)

\* bit 32 - j of the word, the digit of place j counted from the left
DigitAt(word, j) == IF j = 1 THEN Bit31(word) ELSE Bits(word, 32 - j, 1)

\* the loop over bits (lines 1810-1830): values maps a target to its digits
\* and {i: 0}; the substrate, rotated left once per place, shows at place j
\* the digit of the same place
EncodeBits(encoding, values, substrate) ==
    LET used(j) == Cardinality({k \in 1..(j - 1) : encoding[k] = encoding[j]})
        digit(j, str) == IF used(j) < Len(str) THEN str[used(j) + 1] ELSE 0
        place(j) ==
            IF encoding[j] \in DOMAIN values THEN digit(j, values[encoding[j]])
            ELSE IF encoding[j] = "0" THEN 0
            ELSE IF encoding[j] = "1" THEN 1
            ELSE DigitAt(substrate, j)
    IN  FromBinary([j \in 1..Len(encoding) |-> place(j)])

\* the value of argument j (lines 1773-1797): [err, target, ident]
ArgValue(arg, expected) ==
    LET type == IF arg[1] = Chr("$") THEN "register"
                ELSE IF arg[1] = Chr("#") THEN "immediate" ELSE "unknown"
        expectedType == IF expected[1] = "$" THEN "register"
                        ELSE IF expected[1] = "#" THEN "immediate" ELSE "unknown"
        ident == Tail(arg)
        named(n) ==
            IF ~n.nan THEN [err |-> FALSE, target |-> expected[2], ident |-> n.n]
            ELSE IF type = "register" /\ Len(ident) = 1 /\ ident[1].t = "run"
                    /\ ident[1].s \in DOMAIN REGISTER_NAMES
            THEN [err |-> FALSE, target |-> expected[2],
                  ident |-> REGISTER_NAMES[ident[1].s]]
            ELSE [err |-> TRUE, target |-> expected[2], ident |-> 0]
    IN  IF type # expectedType THEN [err |-> TRUE, target |-> expected[2], ident |-> 0]
        ELSE named(Number(ident))

\* a variant of EncodeInstruction in which the substrate of every mnemonic is
\* the word emitted last
EncodeInstructionOnLast(op, args, isIpush, lastNum) ==
    LET bound(j) == ArgValue(args[j], op.args[j])
        targets == {op.args[j][2] : j \in 1..Len(op.args)}
        last(target) == CHOOSE j \in 1..Len(op.args) :
                            /\ op.args[j][2] = target
                            /\ \A k \in (j + 1)..Len(op.args) : op.args[k][2] # target
        values ==
            [target \in targets |->
                padStart(UnsignedBinary(bound(last(target)).ident),
                         FieldWidth(op.encoding, target))]
        valuesS == IF isIpush THEN ("S" :> <<1>>) @@ values ELSE values
    IN  IF Len(args) # Len(op.args) THEN [err |-> TRUE, num |-> 0]
        ELSE IF \E j \in 1..Len(args) : bound(j).err THEN [err |-> TRUE, num |-> 0]
        ELSE [err |-> FALSE, num |-> EncodeBits(op.encoding, valuesS, lastNum)]

\* the word of an instruction (lines 1763-1832): [err, num]
EncodeInstruction(op, args, isIpush, lastNum) ==
    LET bound(j) == ArgValue(args[j], op.args[j])
        targets == {op.args[j][2] : j \in 1..Len(op.args)}
        \* a later argument of the same target replaces an earlier one
        last(target) == CHOOSE j \in 1..Len(op.args) :
                            /\ op.args[j][2] = target
                            /\ \A k \in (j + 1)..Len(op.args) : op.args[k][2] # target
        values ==
            [target \in targets |->
                padStart(UnsignedBinary(bound(last(target)).ident),
                         FieldWidth(op.encoding, target))]
        valuesS == IF isIpush THEN ("S" :> <<1>>) @@ values ELSE values
    IN  IF Len(args) # Len(op.args) THEN [err |-> TRUE, num |-> 0]
        ELSE IF \E j \in 1..Len(args) : bound(j).err THEN [err |-> TRUE, num |-> 0]
        ELSE [err |-> FALSE,
              num |-> EncodeBits(op.encoding, valuesS, IF isIpush THEN lastNum ELSE 0)]

(***************************************************************************)
(* assemble(code).  The state of the loop: the tokens of the line, lastNum *)
(* and lastIrs, the two objects, the draws of Math.random() still to come  *)
(* and whether an error was thrown.                                        *)
(***************************************************************************)
\* "__RODATA_" + (Math.random() * 0x10000000 | 0).toString(16)
RodataLabel(draw) == IF draw = 0 THEN "__RODATA_0" ELSE "__RODATA_1"

AssemblerStart(draws) ==
    [line |-> <<>>, lastNum |-> 0, lastIrs |-> FALSE, textObj |-> VMBytecodeObject,
     rodataObj |-> VMBytecodeObject, draws |-> draws, err |-> FALSE]

\* the loop over the arguments (lines 1717-1735): a float literal F#n goes
\* to the rodata object under a drawn label and becomes &label; &label and
\* ^label become a relocation of the text object and #0
RECURSIVE HoistArgs(_, _, _)
HoistArgs(a, args, j) ==
    LET arg == args[j]
        isFloat == Len(arg) >= 2 /\ arg[1] = Run("F") /\ arg[2] = Chr("#")
        labelName == RodataLabel(Head(a.draws))
        stored(obj) ==
            [a EXCEPT !.rodataObj = obj, !.draws = Tail(@), !.err = obj.err]
        hoisted(obj) ==
            IF obj.err THEN stored(obj)
            ELSE stored(directiveFloat(obj, <<Tail(arg)>>))
        relocated(b, name) ==
            HoistArgs([b EXCEPT !.textObj = addRelocation(@, name[1] = Chr("^"),
                                                          Tail(name), 0)],
                      [args EXCEPT ![j] = <<Chr("#"), Lit(0)>>], j + 1)
        second(b, name) ==
            IF b.err THEN [a |-> b, args |-> args]
            ELSE IF name[1] = Chr("&") \/ name[1] = Chr("^") THEN relocated(b, name)
            ELSE HoistArgs(b, args, j + 1)
    IN  IF j > Len(args) THEN [a |-> a, args |-> args]
        ELSE IF isFloat
        THEN second(hoisted(addLabel(a.rodataObj, labelName, 0)),
                    <<Chr("&"), Run(labelName)>>)
        ELSE second(a, arg)

\* the name of a relocation or of a label line as the key of obj.labels; a
\* name that is no single word is the key of no label
LabelKey(name) ==
    IF Len(name) = 1 /\ name[1].t = "run" THEN name[1].s ELSE ""

\* the instruction branch (lines 1753-1836)
AssembleInstruction(a, command, args) ==
    LET isIpush == command = <<Run("ipush")>>
        known == Len(command) = 1 /\ command[1].t = "run" /\ command[1].s \in DOMAIN OPS
        emitted(op, word, obj) ==
            IF word.err THEN Throw(a)
            ELSE [a EXCEPT !.textObj = pushInt(obj, word.num),
                           !.lastNum = word.num, !.lastIrs = op.irs]
        encoded(op, obj) ==
            emitted(op, EncodeInstruction(op, args, isIpush, a.lastNum), obj)
    IN  IF isIpush /\ ~a.lastIrs THEN Throw(a)
        ELSE IF ~known THEN Throw(a)
        ELSE encoded(OPS[command[1].s],
                     IF isIpush THEN [a.textObj EXCEPT !.addr = @ - 1] ELSE a.textObj)

\* the directive branch (lines 1737-1752)
AssembleDirective(a, command, args) ==
    LET directiveName == Tail(command)
        applied(obj) == [a EXCEPT !.textObj = obj, !.err = obj.err]
    IN  IF ~isIdentifier(directiveName) THEN Throw(a)
        ELSE IF directiveName[1].s \notin DOMAIN DIRECTIVE_METHODS THEN Throw(a)
        ELSE applied(ApplyDirective(a.textObj, DIRECTIVE_METHODS[directiveName[1].s],
                                    args))

\* the body run at ";" and at the line feed when the line has a token
\* (lines 1698-1840)
AssembleLine(a) ==
    LET line == SelectSeq(a.line, LAMBDA e : e # <<>>)
        command == Head(line)
        labelName == SubSeq(command, 1, Len(command) - 1)
        labelled(obj) == [a EXCEPT !.textObj = obj, !.err = obj.err, !.line = <<>>]
        body(h) ==
            IF h.a.err THEN h.a
            ELSE IF command[1] = Chr(".") THEN AssembleDirective(h.a, command, h.args)
            ELSE AssembleInstruction(h.a, command, h.args)
        ended(b) == [b EXCEPT !.line = <<>>]
    IN  IF command[Len(command)] = Chr(":")
        THEN (IF ~isIdentifier(labelName) THEN Throw(a)
              ELSE labelled(addLabel(a.textObj, LabelKey(labelName), 0)))
        ELSE ended(body(HoistArgs(a, Tail(line), 1)))

\* one turn of the loop over the characters, for the atom chr
AssembleAtom(a, chr) ==
    LET n == Len(a.line)
    IN  IF a.err THEN a
        ELSE IF (chr = Chr(";") \/ chr = Chr("\n")) /\ n > 0 THEN AssembleLine(a)
        ELSE IF chr = Chr(" ") \/ chr = Chr("\n")
        THEN (IF n = 1 THEN [a EXCEPT !.line = Append(@, <<>>)] ELSE a)
        ELSE IF chr = Chr(",") /\ n > 1 THEN [a EXCEPT !.line = Append(@, <<>>)]
        ELSE IF n = 0 THEN [a EXCEPT !.line = <<<<chr>>>>]
        ELSE [a EXCEPT !.line[n] = Append(@, chr)]

\* assemble(code): the state after the last character; [textObj, rodataObj]
\* is returned when err is false
RECURSIVE assembleFrom(_, _, _)
assembleFrom(a, code, i) ==
    IF a.err \/ i > Len(code) THEN a
    ELSE assembleFrom(AssembleAtom(a, code[i]), code, i + 1)

assemble(code, draws) == assembleFrom(AssemblerStart(draws), code, 1)

(***************************************************************************)
(* VMLinker.link(objects)                                                  *)
(***************************************************************************)
\* the loops over the labels, the relocations and the data of one object;
\* for..in visits the labels in the order of their insertion, and the only
\* thing that order decides is which duplicate is found first
LinkObject(obj, input) ==
    LET names == DOMAIN input.labels
        clash == \E name \in names : HasLabel(obj, name)
        labels == [name \in names |-> obj.addr + input.labels[name]] @@ obj.labels
        relocs ==
            [j \in 1..Len(input.relocations) |->
                VMBytecodeRelocation(input.relocations[j].rel,
                                     obj.addr + input.relocations[j].addr,
                                     input.relocations[j].label)]
    IN  IF obj.err THEN obj
        ELSE IF clash THEN Throw(obj)
        ELSE [obj EXCEPT !.labels = labels, !.relocations = @ \o relocs,
                         !.data = @ \o input.data, !.addr = @ + Len(input.data)]

\* labelAddr & 0xFFFF once the relocation is applied; the inherited
\* property of a name of Object.prototype is no number: NaN, 0 in the word
LabelBits(obj, reloc) ==
    LET key == LabelKey(reloc.label)
        labelAddr == obj.labels[key]
    IN  IF key \notin DOMAIN obj.labels THEN 0
        ELSE IF reloc.rel THEN (labelAddr - reloc.addr) % 65536
        ELSE labelAddr % 65536

\* the loop over the relocations (lines 2008-2023)
RECURSIVE Resolve(_, _)
Resolve(obj, i) ==
    LET reloc == obj.relocations[i]
        site == IF reloc.addr < Len(obj.data) THEN obj.data[reloc.addr + 1] ELSE 0
        patched == (site - (site % 65536)) + LabelBits(obj, reloc)
    IN  IF i > Len(obj.relocations) THEN obj
        ELSE IF ~HasLabel(obj, LabelKey(reloc.label)) THEN Throw(obj)
        ELSE Resolve([obj EXCEPT !.data = ArrayStore(@, reloc.addr, patched)], i + 1)

RECURSIVE linkFrom(_, _, _)
linkFrom(obj, objects, i) ==
    IF obj.err \/ i > Len(objects) THEN obj
    ELSE linkFrom(LinkObject(obj, objects[i]), objects, i + 1)

link(objects) ==
    LET resolved(obj) == IF obj.err THEN obj ELSE Resolve(obj, 1)
    IN  resolved(linkFrom(VMBytecodeObject, objects, 1))

(***************************************************************************)
(* The source texts given to the assembler.                                *)
(***************************************************************************)
Reg(r) == <<Chr("$"), Lit(r)>>
Imm(n) == <<Chr("#"), Lit(n)>>
Rel(name) == <<Chr("^"), Run(name)>>
Abs(name) == <<Chr("&"), Run(name)>>
FloatLit(n) == <<Run("F"), Chr("#"), Lit(n)>>

\* the arguments of a line, separated by ", "
RECURSIVE ArgList(_)
ArgList(args) ==
    IF args = <<>> THEN <<>>
    ELSE IF Len(args) = 1 THEN Head(args)
    ELSE Head(args) \o <<Chr(","), Chr(" ")>> \o ArgList(Tail(args))

\* a line of an instruction, of a directive, of a label alone
Instr(mnemonic, args) == <<Run(mnemonic), Chr(" ")>> \o ArgList(args) \o <<Chr("\n")>>
Directive(name, args) ==
    <<Chr("."), Run(name), Chr(" ")>> \o ArgList(args) \o <<Chr("\n")>>
LabelLine(name) == <<Run(name), Chr(":"), Chr("\n")>>

\* the register numbers and the immediates of the one-line texts
RegisterArgs == {0, 1, 21, 31}
ImmediateArgs == {-32768, -2, -1, 0, 1, 32767}

\* the values of the arguments of an instruction: a register number for
\* "$", an immediate for "#"
ArgValues(op) ==
    {vals \in [1..Len(op.args) -> RegisterArgs \cup ImmediateArgs] :
        \A j \in 1..Len(op.args) :
            vals[j] \in (IF op.args[j][1] = "$" THEN RegisterArgs ELSE ImmediateArgs)}

\* the line `mnemonic args` with the values vals
EncodeLine(mnemonic, vals) ==
    Instr(mnemonic,
          [j \in 1..Len(vals) |->
              IF OPS[mnemonic].args[j][1] = "$" THEN Reg(vals[j]) ELSE Imm(vals[j])])

SourcesEncode ==
    UNION {{EncodeLine(mnemonic, vals) : vals \in ArgValues(OPS[mnemonic])} :
              mnemonic \in DOMAIN OPS \ {"ipush"}}

\* `start: cvt.int.i $3, #1; b.i ^start`, and the same with the label on a
\* line of its own
SourceLabelAndInstruction ==
    <<Run("start"), Chr(":"), Chr(" "), Run("cvt.int.i"), Chr(" ")>> \o Reg(3)
        \o <<Chr(","), Chr(" ")>> \o Imm(1) \o <<Chr(";"), Chr(" "), Run("b.i"), Chr(" ")>>
        \o Rel("start") \o <<Chr("\n")>>
SourceLabelAlone ==
    LabelLine("start") \o Instr("cvt.int.i", <<Reg(3), Imm(1)>>)
        \o Instr("b.i", <<Rel("start")>>)

SourcesLabel ==
    {SourceLabelAndInstruction, SourceLabelAlone,
     Instr("nop", <<>>) \o LabelLine("loop") \o LabelLine("loop"),
     LabelLine("toString") \o Instr("nop", <<>>),
     <<Run("x"), Chr(":"), Chr("\n")>>,
     <<Chr(";"), Chr(";")>>,
     <<Run("nop"), Chr(" "), Chr(" "), Chr(";"), Chr("\n"), Run("ret"), Chr(";")>>,
     Instr("push.r", <<<<Chr("$"), Run("SP")>>>>) \o Instr("pop", <<<<Chr("$")>>>>),
     Instr("push.r", <<<<Chr("$"), Run("word")>>>>),
     Instr("push.r", <<Imm(1)>>),
     Instr("push.i", <<Imm(1), Imm(2)>>),
     Instr("word", <<>>)}

\* texts with relocations
SourcesLink ==
    {LabelLine("start") \o Instr("nop", <<>>) \o LabelLine("loop")
         \o Instr("b.i", <<Rel("start")>>) \o Instr("b.abs.i", <<Abs("loop")>>)
         \o Instr("call.i", <<Abs("done")>>) \o Instr("bc.i", <<Rel("done")>>)
         \o LabelLine("done") \o Instr("ret", <<>>),
     Instr("cvt.ptr.i", <<Reg(3), FloatLit(1)>>) \o Instr("push.i", <<FloatLit(2)>>)
         \o LabelLine("done") \o Instr("cvt.int.i", <<Reg(4), Abs("done")>>),
     Instr("b.i", <<Rel("done")>>),
     Instr("nop", <<>>) \o Instr("b.abs.i", <<Abs("toString")>>),
     Instr("nop", <<>>) \o Instr("b.i", <<Rel("toString")>>),
     Instr("b.i", <<<<Chr("^"), Lit(5)>>>>),
     Directive("ptr", <<Abs("aa"), Abs("bb")>>) \o Instr("nop", <<>>) \o LabelLine("aa")
         \o Instr("nop", <<>>) \o LabelLine("bb") \o Instr("ret", <<>>),
     Directive("int", <<Imm(-1)>>) \o LabelLine("aa") \o Directive("ptr", <<Abs("aa")>>)
         \o Directive("int", <<Rel("aa")>>),
     Instr("nop", <<>>) \o Instr("ipush", <<Rel("loop")>>) \o LabelLine("loop")
         \o Instr("exit.i", <<Imm(-1)>>)}

\* the texts before an ipush line: those whose last word comes from an
\* instruction that declares S, and the others
BeforeIpushS ==
    {Instr("nop", <<>>),
     Instr("push.i", <<Imm(1)>>) \o Instr("push.r", <<Reg(4)>>),
     Instr("call.i", <<Imm(3)>>),
     Instr("cvt.null.i", <<Reg(5), Imm(0)>>),
     Instr("nop", <<>>) \o Instr("ipush", <<Imm(1)>>) \o Instr("ret", <<>>),
     Directive("int", <<Imm(5)>>) \o Instr("pop", <<Reg(4)>>),
     Instr("ret", <<>>) \o LabelLine("loop")}
BeforeIpushOther ==
    {<<>>,
     LabelLine("start"),
     Instr("nop", <<>>) \o Instr("ipush", <<Imm(1)>>),
     Instr("push.i", <<Imm(1)>>),
     Instr("nop", <<>>) \o Instr("exit.i", <<Imm(0)>>),
     Instr("nop", <<>>) \o Instr("c.cmp.i", <<Reg(4), Imm(1)>>),
     Directive("int", <<Imm(5)>>),
     Instr("nop", <<>>) \o Directive("int", <<Imm(5)>>),
     Instr("ret", <<>>) \o Directive("float", <<Imm(1)>>),
     Instr("pop", <<Reg(4)>>) \o Directive("ptr", <<Imm(5), Imm(6)>>),
     Instr("push.i", <<Imm(1)>>) \o Directive("ptr", <<Imm(5)>>)}

IpushArgs == {-2, 1}

SourcesIpush ==
    {before \o Instr("ipush", <<Imm(n)>>) :
        before \in BeforeIpushS \cup BeforeIpushOther, n \in IpushArgs}
        \cup {Instr("nop", <<>>) \o Directive("str", <<Imm(5)>>)
                  \o Instr("ipush", <<Imm(1)>>),
              Instr("nop", <<>>) \o Directive("word", <<Imm(5)>>),
              Instr("nop", <<>>) \o Directive("x", <<>>),
              Directive("float", <<<<Run("word")>>>>),
              Directive("int", <<<<Run("word")>>>>)}

\* two instruction lines: a first one whose word has many digits 1, and a
\* second one whose encoding has `?` positions
SubstrateFirsts ==
    {Instr("shr", <<Reg(31), Reg(31), Reg(31)>>),
     Instr("push.r", <<Reg(31)>>),
     Instr("callc.r", <<Reg(31)>>),
     Instr("exit.i", <<Imm(32767)>>)}
SubstrateSeconds ==
    {[mnemonic |-> "nop", vals |-> <<>>],
     [mnemonic |-> "exit.i", vals |-> <<1>>],
     [mnemonic |-> "add", vals |-> <<1, 21, 31>>],
     [mnemonic |-> "b.i", vals |-> <<1>>],
     [mnemonic |-> "cvt.int.r", vals |-> <<1, 21>>]}
SourcesSubstrate ==
    {first \o EncodeLine(second.mnemonic, second.vals) :
        first \in SubstrateFirsts, second \in SubstrateSeconds}

Sources ==
    SourcesEncode \cup SourcesLabel \cup SourcesLink \cup SourcesIpush
        \cup SourcesSubstrate

\* the draws of Math.random() of one call of assemble(): the same label
\* twice, or two labels
Draws == {<<0, 0>>, <<0, 1>>}

VARIABLES
    vm,        \* the VM object
    phase,     \* where the page is: "setup", "loaded", "executing" or
               \* "reloaded"
    pushes,    \* how many bootstrap values were pushed
    steps,     \* how many times step() was called
    running,   \* whether a call of run() is in progress
    thrown,    \* whether the last call of the API threw
    returned,  \* what the last step() or run() returned
    prev,      \* the VM object when the last call of step() or of
               \* loadProgram() began
    lastOp,    \* the last call: "new", "setEnvironment", "loadProgram",
               \* "stackPush", "step" or "run"
    frames,    \* history: the calls that pushed a return address and were not
               \* returned from yet, oldest first, each with the offset a of
               \* PC at the call and the CSP before it
    loaded,    \* history: the words given to the last call of loadProgram()
    asm        \* the assembler and the linker: the text, the objects of
               \* assemble(), the object of link()

vars ==
    <<vm, phase, pushes, steps, running, thrown, returned, prev, lastOp, frames, loaded,
      asm>>

\* the text before assemble(code) is called
Unassembled(code) ==
    [stage |-> "source", code |-> code, a |-> AssemblerStart(<<>>),
     exe |-> VMBytecodeObject]

\* new VM()
Init ==
    /\ vm = reset(Blank)
    /\ phase = "setup"
    /\ pushes = 0
    /\ steps = 0
    /\ running = FALSE
    /\ thrown = FALSE
    /\ returned = ExitUndefined
    /\ prev = reset(Blank)
    /\ lastOp = "new"
    /\ frames = <<>>
    /\ loaded = <<>>
    /\ asm = Unassembled(<<>>)

\* the machine once the exception, if any, has left the call
Caught(m) == [m EXCEPT !.err = FALSE]

(***************************************************************************)
(* The programs the page may load.  Registers 3..9 are ordinary slots.     *)
(***************************************************************************)
\* straight-line code, stop and trace instructions, a reserved class
ProgramsPlain ==
    {<<nop, ipush(5), exit_i(3)>>,
     <<exit_i(-1)>>,
     <<exit_i(7)>>,
     <<withS(exit_i(7), 9)>>,
     <<cvt_i(TYPE_INT, 4, 7), exit_r(4)>>,
     <<cvt_i(TYPE_INT, 4, 7), withS(exit_r(4), 9)>>,
     <<ipush(5), withS(exit_r(REG_IPOP), 9)>>,
     <<exit_r(31)>>,
     <<dbg, dbgp(4), break, nop>>,
     <<dbgp(31)>>,
     <<reserved>>,
     <<cvt_i(TYPE_PTR, REG_PC, 5), nop>>,
     <<pop(REG_PC), nop>>,
     <<num(0, 0, REG_PC, REG_PC, REG_PC)>>,
     <<cvt_i(TYPE_INT, REG_PC, 5)>>,
     <<cvt_r(TYPE_PTR, REG_PC, REG_SP), nop, nop>>,
     <<cvt_i(TYPE_EXT, 4, 0)>>,
     <<cvt_i(TYPE_NULL, 4, 9), withS(cvt_i(TYPE_NULL, 4, 0), 9)>>}

\* branches and calls
ProgramsBranch ==
    {<<b_i(2), nop, b_i(-2)>>,
     <<b_abs_i(2), nop, b_abs_i(0)>>,
     <<b_abs_i(-1)>>,
     <<cvt_i(TYPE_INT, 4, 2), b_r(4), nop, b_abs_r(4)>>,
     <<cvt_i(TYPE_PTR, 4, 3), b_abs_r(4), nop, call_r(4)>>,
     <<cvt_i(TYPE_PTR, 4, 3), b_r(4)>>,
     <<cvt_i(TYPE_FLOAT, 4, 3), b_abs_r(4)>>,
     <<b_r(4)>>,
     <<cvt_i(TYPE_INT, 4, 2), withS(b_r(4), 9), nop, withS(call_r(4), 8)>>,
     <<withS(b_i(2), 9), nop, withS(call_i(1), 8)>>,
     <<cvt_i(TYPE_INT, 1, 0), bc_i(2), break>>,
     <<cvt_i(TYPE_INT, 1, 1), bc_i(2), nop, exit_i(0)>>,
     <<cvt_i(TYPE_INT, 1, 0), bc_abs_i(0), callc_i(0), withS(bc_r(4), 7)>>,
     <<cvt_i(TYPE_INT, 1, -1), bc_abs_i(3), nop, callc_i(0)>>,
     <<bc_i(2)>>,
     <<cvt_i(TYPE_FLOAT, 1, 1), bc_i(2)>>,
     <<cvt_i(TYPE_PTR, 1, 1), callc_i(0)>>,
     <<push_i(3), cvt_i(TYPE_INT, 1, 0), withS(bc_r(REG_POP), 7)>>,
     <<push_i(2), cvt_i(TYPE_INT, 1, 5), bc_r(REG_POP), nop>>,
     <<cvt_i(TYPE_PTR, REG_IRSP, -1), cvt_i(TYPE_INT, 1, 0), cvt_i(TYPE_INT, 4, 4),
       withS(b_abs_r(4), 9), bc_i(2), nop>>,
     <<call_i(2), exit_i(1), ret>>,
     <<call_i(3), call_i(3), exit_i(0), ret>>,
     <<call_i(2), exit_i(0), call_i(4), ret, ret>>,
     <<call_i(2), exit_i(0), withS(ret, 4)>>,
     <<ret>>,
     <<WordA(INSTR_CLASS_B, 0, 4, 0, 0, 2)>>,
     <<cvt_i(TYPE_INT, 1, 0), WordA(INSTR_CLASS_B, 0, 4, 4, 0, 2)>>,
     <<cvt_i(TYPE_INT, 1, 1), WordA(INSTR_CLASS_B, 0, 4, 4, 0, 2)>>,
     <<cvt_i(TYPE_INT, 4, 2), WordA(INSTR_CLASS_B, 0, 5, 0, 4, 0)>>,
     <<cvt_i(TYPE_INT, 1, 0), WordA(INSTR_CLASS_B, 0, 5, 4, 4, 0), nop>>,
     <<b_i(0)>>,
     <<nop, b_i(0)>>,
     <<b_i(1), exit_i(0)>>,
     <<withS(b_i(1), 5), withS(nop, 5)>>,
     <<cvt_i(TYPE_PTR, REG_IRSP, 9), b_i(1), nop>>,
     <<cvt_i(TYPE_PTR, REG_IRSP, -1), withS(b_abs_r(REG_ZERO), 9)>>,
     <<cvt_i(TYPE_PTR, REG_IRSP, -1), cvt_i(TYPE_INT, 4, 3), withS(b_abs_r(4), 9),
       b_i(1)>>,
     <<cvt_i(TYPE_PTR, REG_IRSP, -1), cvt_i(TYPE_INT, 4, 4), withS(call_r(4), 9),
       exit_i(0), ret>>,
     <<call_i(2), exit_i(0), cvt_i(TYPE_PTR, REG_IRSP, -1), withS(ret, 4)>>}

\* calls of host callables
ProgramsExt ==
    {<<pop(4), push_i(0), call_r(4), pop(5)>>,
     <<pop(4), push_i(1), push_i(2), call_r(4)>>,
     <<call_r(31)>>,
     <<pop(4), push_i(1), push_r(REG_PC), withS(call_r(4), 6)>>,
     <<pop(4), push_r(4), call_r(4)>>,
     <<cvt_i(TYPE_PTR, 4, 9), load(5, 4), exit_r(5)>>,
     <<load(5, 4), get_(5, 0), set_(0, 4), get_(5, 0)>>,
     <<cvt_i(TYPE_PTR, 4, 9), load(5, 4), loadp(6, 5, 4), call_r(5)>>,
     <<pop(4), cvt_i(TYPE_PTR, REG_IRSP, -1), cvt_i(TYPE_INT, 5, 5), push_i(0),
       withS(b_abs_r(5), 9), call_r(4)>>,
     <<pop(4), push_i(7), push_i(8), cvt_i(TYPE_INT, 1, 1), WordA(INSTR_CLASS_B, 0, 7, 4, 4, 0)>>}

\* the data stack and the immediate reuse stack
ProgramsStack ==
    {<<cvt_i(TYPE_INT, 4, 7), push_r(4), pop(5), exit_r(5)>>,
     <<push_i(7), pop(4)>>,
     <<push_r(REG_SP), pop(4)>>,
     <<cvt_i(TYPE_FLOAT, 4, 3), push_r(4), push_r(5), pop(6), pop(7)>>,
     <<pop(REG_SP), push_i(1), pop(4)>>,
     <<pop(REG_SP), push_i(1), push_i(2)>>,
     <<push_i(3), push_r(REG_POP)>>,
     <<push_i(3), pop(REG_PUSH)>>,
     <<pop(4)>>,
     <<push_r(REG_POP)>>,
     <<pop(REG_POP)>>,
     <<ipush(5), ipop_int(4)>>,
     <<ipush(-1), ipop_ptr(4)>>,
     <<ipush(5), cvt_r(TYPE_INT, 4, REG_IPOP)>>,
     <<ipush(-2), cvt_r(TYPE_PTR, 4, REG_IPTR)>>,
     <<ipush(5), push_r(REG_IPOP), pop(4)>>,
     <<ipush(-6), push_r(REG_IPTR), pop(4)>>,
     <<ipush(1), ipush(2), num(1, 0, 4, REG_IPOP, REG_IPOP)>>,
     <<ipush(1), ipush(2), num(1, 0, 4, REG_IPTR, REG_IPTR)>>,
     <<ipop_int(4)>>,
     <<ipop_ptr(4)>>,
     <<push_r(REG_IPOP)>>,
     <<push_r(REG_IPTR)>>,
     <<ipush(5), ipop_int(REG_IPOP)>>,
     <<cvt_i(TYPE_PTR, REG_IRSP, -1), ipush(5)>>,
     <<cvt_r(TYPE_PTR, REG_IRSP, REG_SP), ipush(5), ipop_int(4)>>}

\* writes to slot 0
ProgramsZero ==
    {<<cvt_i(TYPE_INT, REG_ZERO, 5), push_r(REG_ZERO)>>,
     <<pop(REG_ZERO)>>,
     <<push_i(3), pop(REG_ZERO), push_r(REG_ZERO)>>,
     <<ipush(5), ipop_int(REG_ZERO)>>,
     <<ipop_ptr(REG_ZERO)>>,
     <<num(0, 0, REG_ZERO, REG_SP, REG_SP)>>,
     <<num(0, 1, REG_ZERO, REG_SP, REG_SP)>>,
     <<c_r(1, REG_ZERO, REG_ZERO, REG_ZERO)>>,
     <<c_r(3, REG_ZERO, 4, 0)>>,
     <<load(REG_ZERO, 4)>>,
     <<get_(REG_ZERO, 4)>>,
     <<read(TYPE_INT, REG_ZERO, REG_PC, REG_ZERO)>>,
     <<read(TYPE_EXT, REG_ZERO, REG_PC, REG_ZERO)>>,
     <<cvt_r(TYPE_FLOAT, REG_ZERO, REG_ZERO)>>,
     <<cvt_r(TYPE_INT, REG_ZERO, 4)>>,
     <<repr(TYPE_INT, TYPE_FLOAT, REG_ZERO, REG_SP)>>}

\* num: every operation on Int and Float operands, zero divisors included
ProgramsNum ==
    {<<cvt_i(tx, 4, x), cvt_i(ty, 5, y), num(c0, T, 6, 4, 5)>> :
        tx \in {TYPE_INT, TYPE_FLOAT}, ty \in {TYPE_INT, TYPE_FLOAT},
        x \in {7}, y \in {0, 2}, c0 \in {0, 3, 4}, T \in {0, 1}}
    \cup {<<cvt_i(TYPE_INT, 4, -7), num(c0, T, 6, 4, REG_ZERO)>> :
            c0 \in 0..7, T \in {0, 1}}
    \cup {<<num(3, 0, 6, 4, REG_ZERO)>>,
          <<cvt_i(TYPE_PTR, 4, 3), num(3, 0, 6, 4, REG_ZERO)>>,
          <<cvt_i(TYPE_PTR, 4, 3), num(1, 0, 6, 4, REG_SP), num(0, 0, 6, 4, 6)>>}

\* cmp: every comparison of Ptrs of two regions, of one region, of a Ptr
\* and an Int, of Ints, and every comparison with an immediate
ProgramsCmp ==
    {<<c_r(c0, 4, x, y)>> :
        c0 \in 0..7,
        x \in {REG_IRSP, REG_ZERO, REG_SP}, y \in {REG_SP, REG_ZERO, 5}}
    \cup {<<c_i(c0, x, 0)>> : c0 \in 0..7, x \in {REG_SP, REG_ZERO, 5}}
    \cup {<<cvt_i(TYPE_PTR, 5, 0), c_r(c0, 4, 5, REG_SP)>> : c0 \in 0..7}

\* mem
ProgramsMem ==
    {<<cvt_i(TYPE_INT, 4, 9), write(4, REG_PC, 4), read(TYPE_INT, 5, REG_SP, 4)>>,
     <<read(TYPE_NULL, 5, REG_PC, REG_ZERO), read(TYPE_PTR, 5, REG_PC, REG_ZERO)>>,
     <<write(4, REG_PC, REG_ZERO)>>,
     <<cvt_i(TYPE_INT, 4, -1), read(TYPE_FLOAT, 5, REG_PC, 4)>>,
     <<push_i(7), cvt_i(TYPE_INT, 4, -1), read(TYPE_INT, 5, REG_SP, 4)>>,
     <<push_i(7), write(6, REG_SP, REG_ZERO)>>,
     <<cvt_i(TYPE_INT, 4, 5), write(4, REG_SP, REG_ZERO), nop>>,
     <<cvt_i(TYPE_INT, 5, 7), cvt_i(TYPE_INT, 6, 7), read(TYPE_NULL, 5, REG_PC, REG_ZERO),
       read(TYPE_EXT, 6, REG_PC, REG_ZERO)>>}

\* writes to the preserved slots 24 and 25, to comp and to PUSH
ProgramsReset ==
    {<<cvt_i(TYPE_INT, REG_P0, 7), cvt_i(TYPE_FLOAT, REG_P1, 3), cvt_i(TYPE_INT, 1, 1),
       cvt_i(TYPE_INT, REG_PUSH, 2)>>,
     <<pop(REG_P0), cvt_r(TYPE_PTR, REG_P1, REG_SP), exit_r(REG_P0)>>}

\* writes to the pointer slots SP, IRSP and PC
ProgramsPointers ==
    {<<cvt_i(TYPE_PTR, REG_SP, 3), push_i(1), pop(4)>>,
     <<cvt_i(TYPE_INT, REG_SP, 3), push_i(1)>>,
     <<cvt_i(TYPE_FLOAT, REG_IRSP, 3), ipush(5)>>,
     <<push_r(REG_IRSP), pop(REG_SP), push_i(1)>>,
     <<cvt_i(TYPE_INT, 4, -1), num(0, 0, REG_IRSP, REG_IRSP, 4), push_r(REG_SP),
       withS(pop(REG_PC), 9), nop>>,
     <<cvt_i(TYPE_INT, REG_PC, 1), nop>>,
     <<cvt_i(TYPE_PTR, REG_SP, 3), cvt_i(TYPE_INT, REG_PUSH, 7), pop(4)>>,
     <<cvt_i(TYPE_INT, REG_PUSH, 7), push_r(REG_PUSH), pop(4), cvt_r(TYPE_INT, 5, REG_POP)>>,
     <<cvt_i(TYPE_INT, REG_POP, 1), cvt_i(TYPE_INT, REG_IPOP, 1),
       cvt_i(TYPE_INT, REG_IPTR, 1)>>}

\* words of the classes without a handler, alone and after a push
ProgramsReserved ==
    {<<WordA(class, 0, 0, 0, 0, 0), nop>> : class \in 11..14}
        \cup {<<push_i(1), WordA(class, 1, 7, 7, REG_POP, -1), nop>> : class \in 11..14}

\* instructions with S set, of the mnemonics whose irs is true in OPS and of
\* others
ProgramsIrs ==
    {<<withS(push_r(4), 5), withS(pop(5), 6), withS(ipop_int(6), 7),
       withS(ipop_ptr(7), 8), withS(nop, 9)>>,
     <<withS(cvt_i(TYPE_NULL, 4, 0), 9), withS(cvt_i(TYPE_INT, 4, 0), 3),
       withS(c_i(4, 4, 0), 2), withS(c_i(0, 4, 0), 1), withS(push_i(0), 4)>>,
     <<withS(call_i(0), 2), nop, withS(ret, 3)>>,
     <<cvt_i(TYPE_INT, 1, 1), withS(callc_i(0), 3), nop, withS(exit_i(0), 1)>>,
     <<cvt_i(TYPE_INT, 1, 0), withS(callc_i(0), 3), withS(bc_i(0), 2),
       withS(WordA(INSTR_CLASS_B, 0, 3, 4, 4, 0), 1)>>,
     <<pop(4), push_i(0), withS(call_r(4), 8)>>,
     <<cvt_i(TYPE_INT, 1, 1), cvt_i(TYPE_PTR, 4, 3),
       withS(WordA(INSTR_CLASS_B, 0, 7, 4, 4, 0), 5), nop>>}

\* repr through each type and back
ProgramsRepr ==
    {<<cvt_i(TYPE_INT, 4, -7), repr(TYPE_PTR, TYPE_PTR, 5, 4), repr(TYPE_INT, TYPE_INT, 6, 5)>>,
     <<cvt_i(TYPE_INT, 4, 7), repr(TYPE_FLOAT, TYPE_INT, 5, 4), repr(TYPE_INT, TYPE_FLOAT, 6, 5)>>,
     <<repr(TYPE_FLOAT, TYPE_FLOAT, 5, REG_SP), repr(TYPE_PTR, TYPE_PTR, 6, 5)>>,
     <<cvt_i(TYPE_FLOAT, 4, -3), repr(TYPE_INT, TYPE_INT, 5, 4),
       repr(TYPE_FLOAT, TYPE_FLOAT, 6, 5)>>}

\* repr with the source types null, ext and 7, with Null and Ext sources,
\* and with conversions that fail after the reinterpretation
ProgramsReprFaults ==
    {<<repr(TYPE_NULL, TYPE_INT, 5, 4), repr(TYPE_NULL, TYPE_PTR, 6, 5),
       repr(TYPE_INT, TYPE_NULL, 7, 4), cvt_i(TYPE_INT, 8, 9),
       repr(TYPE_INT, TYPE_INT, 8, 4)>>,
     <<pop(4), repr(TYPE_NULL, TYPE_FLOAT, 5, 4), repr(TYPE_EXT, TYPE_NULL, 6, 4),
       repr(TYPE_PTR, TYPE_INT, 5, 4)>>,
     <<cvt_i(TYPE_INT, 4, 7), cvt_i(TYPE_INT, 5, 9), repr(TYPE_EXT, TYPE_INT, 5, 4)>>,
     <<cvt_i(TYPE_INT, 4, 7), cvt_i(TYPE_INT, 5, 9), repr(7, TYPE_INT, 5, 4)>>,
     <<cvt_i(TYPE_FLOAT, 4, 1), cvt_i(TYPE_INT, 5, 9), repr(TYPE_FLOAT, TYPE_PTR, 5, 4)>>,
     <<cvt_i(TYPE_INT, 4, 1), cvt_i(TYPE_INT, 5, 9), repr(TYPE_INT, TYPE_EXT, 5, 4)>>,
     <<cvt_i(TYPE_INT, 5, 9), repr(TYPE_INT, TYPE_INT, 5, REG_POP)>>,
     <<cvt_i(TYPE_INT, 5, 9), repr(TYPE_NULL, TYPE_EXT, 5, 4)>>}

\* num with a Ptr as X or as Y, with results that wrap, and bitwise
\* operations of a Float
ProgramsNumPtr ==
    {<<cvt_i(TYPE_INT, 4, 1), num(0, 0, 6, 4, REG_SP)>>,
     <<cvt_i(TYPE_PTR, 4, 3), cvt_i(TYPE_INT, 5, 2), num(0, 1, 6, 4, 5)>>,
     <<cvt_i(TYPE_PTR, 4, 3), cvt_i(TYPE_INT, 5, 2), num(2, 0, 6, 4, 5)>>,
     <<cvt_i(TYPE_PTR, 4, 3), cvt_i(TYPE_FLOAT, 5, 2), num(0, 0, 6, 4, 5)>>,
     <<cvt_i(TYPE_FLOAT, 4, 3), cvt_i(TYPE_INT, 5, 2), num(5, 0, 6, 4, 5)>>,
     <<cvt_i(TYPE_PTR, 4, -1), cvt_i(TYPE_INT, 5, 2), num(0, 0, 6, 4, 5),
       num(1, 0, 7, 6, 4)>>,
     <<cvt_i(TYPE_INT, 5, 2), num(0, 0, 6, REG_SP, 5), num(1, 0, 7, REG_IRSP, 6)>>,
     <<cvt_i(TYPE_INT, 4, 32767), cvt_i(TYPE_INT, 5, 16), num(7, 0, 6, 4, 5),
       num(0, 0, 7, 6, 6)>>}

\* sys words with each of bits 27, 26 and 24, and dbgp of the popping slots
ProgramsSys ==
    {<<WordA(INSTR_CLASS_SYS, 0, 4, 0, 0, 0), WordA(INSTR_CLASS_SYS, 0, 5, 0, 4, 0),
       WordA(INSTR_CLASS_SYS, 0, 2, 7, 31, 12345), WordA(INSTR_CLASS_SYS, 1, 4, 0, 0, 0),
       nop>>,
     <<push_i(3), dbgp(REG_POP), WordA(INSTR_CLASS_SYS, 1, 1, 0, REG_POP, 0), nop>>,
     <<ipush(5), dbgp(REG_IPOP), dbgp(REG_IPTR)>>,
     <<dbgp(REG_POP)>>,
     <<cvt_i(TYPE_INT, 4, 7), dbgp(4), WordA(INSTR_CLASS_SYS, 1, 3, 0, 4, 0)>>}

\* pushes with SP at a word of the program and at a used cell of the IRS
ProgramsForeignSp ==
    {<<cvt_i(TYPE_PTR, REG_SP, 0), push_i(1), pop(4)>>,
     <<cvt_i(TYPE_PTR, REG_SP, 1), cvt_i(TYPE_INT, REG_PUSH, 7)>>,
     <<push_r(REG_IRSP), ipush(5), pop(REG_SP), push_i(1)>>}

\* pushes with SP and IRSP at the size of their region
ProgramsFull ==
    {<<cvt_i(TYPE_INT, 4, 1), cvt_i(TYPE_INT, 5, 16), num(7, 0, 4, 4, 5),
       num(0, 0, REG_SP, REG_SP, 4), push_i(1), cvt_i(TYPE_INT, REG_PUSH, 7)>>,
     <<cvt_i(TYPE_INT, 4, 1), cvt_i(TYPE_INT, 5, 16), num(7, 0, 4, 4, 5),
       num(0, 0, REG_IRSP, REG_IRSP, 4), ipush(5), withS(push_r(4), 6)>>}

\* instructions that name popping slots for several operands
ProgramsOrder ==
    {<<push_i(7), push_i(2), num(1, 0, 5, REG_POP, REG_POP)>>,
     <<push_i(7), push_i(2), c_r(0, 4, REG_POP, REG_POP)>>,
     <<cvt_i(TYPE_PTR, 4, 9), push_i(5), push_i(1), push_r(4),
       write(REG_POP, REG_POP, REG_POP)>>,
     <<cvt_i(TYPE_PTR, 4, 0), push_i(1), push_r(4), read(TYPE_INT, 5, REG_POP, REG_POP)>>,
     <<cvt_i(TYPE_PTR, 4, 9), load(5, 4), push_r(5), push_r(4),
       loadp(6, REG_POP, REG_POP)>>,
     <<cvt_i(TYPE_PTR, 4, 9), load(5, 4), push_i(3), push_r(5), push_r(4),
       WordR(INSTR_CLASS_ENV, 1, 1, 0, REG_POP, REG_POP, REG_POP)>>,
     <<ipush(1), push_i(2), num(1, 0, 4, REG_IPOP, REG_POP)>>,
     <<ipush(1), ipush(2), num(0, 0, 4, REG_IPTR, REG_IPOP)>>,
     <<push_i(7), num(1, 0, 5, REG_POP, REG_POP)>>}

\* the programs the page may load after the first one
ProgramsReload ==
    {<<exit_i(-1)>>, <<nop, ipush(5), exit_i(3)>>}

Programs ==
    ProgramsPlain \cup ProgramsBranch \cup ProgramsExt \cup ProgramsStack
        \cup ProgramsZero \cup ProgramsNum \cup ProgramsCmp \cup ProgramsMem
        \cup ProgramsReset \cup ProgramsPointers \cup ProgramsReserved
        \cup ProgramsRepr \cup ProgramsIrs \cup ProgramsReprFaults
        \cup ProgramsNumPtr \cup ProgramsSys \cup ProgramsForeignSp
        \cup ProgramsFull \cup ProgramsOrder

(***************************************************************************)
(* The calls of the API.                                                   *)
(***************************************************************************)
\* vm.setEnvironment(key, value) of the next binding of the page
SetEnvironment ==
    /\ phase = "setup"
    /\ Cardinality(DOMAIN vm.env) < Len(EnvBindings)
    /\ LET bind(b) == vm' = setEnvironment(vm, b.key, b.value, HostNull)
       IN  bind(EnvBindings[Cardinality(DOMAIN vm.env) + 1])
    /\ thrown' = FALSE
    /\ lastOp' = "setEnvironment"
    /\ UNCHANGED <<phase, pushes, steps, running, returned, prev, frames, loaded, asm>>

\* vm.loadProgram(buf)
LoadProgram(buf) ==
    /\ phase = "setup"
    /\ Cardinality(DOMAIN vm.env) = Len(EnvBindings)
    /\ vm' = loadProgram(vm, buf)
    /\ phase' = "loaded"
    /\ thrown' = FALSE
    /\ lastOp' = "loadProgram"
    /\ frames' = <<>>
    /\ prev' = vm
    /\ loaded' = buf
    /\ UNCHANGED asm
    /\ UNCHANGED <<pushes, steps, running, returned>>

\* vm.loadProgram(buf) of the next program, once the page has stepped or run
\* the first one: the model follows the page up to this call
Reload(buf) ==
    /\ phase = "executing"
    /\ ~running
    /\ vm' = loadProgram(vm, buf)
    /\ phase' = "reloaded"
    /\ thrown' = FALSE
    /\ lastOp' = "loadProgram"
    /\ frames' = <<>>
    /\ prev' = vm
    /\ loaded' = buf
    /\ UNCHANGED asm
    /\ UNCHANGED <<pushes, steps, running, returned>>

\* vm.stackPush(vm.create(..)) before the first step
StackPush(v) ==
    /\ phase = "loaded"
    /\ pushes < MaxPush
    /\ LET called(m) ==
               /\ vm' = Caught(m)
               /\ thrown' = m.err
       IN  called(stackPush(Created(vm), [v EXCEPT !.id = vm.nextId]))
    /\ pushes' = pushes + 1
    /\ lastOp' = "stackPush"
    /\ UNCHANGED <<phase, steps, running, returned, prev, frames, loaded, asm>>

\* whether the step about to run dispatches a ret whose callStackPop reads
\* a return address (lines 972-975): CSP - 1 is a cell of the call stack
RetTransfers(m) ==
    /\ ~m.stopped
    /\ ~fetch(m).err
    /\ Decode(fetch(m).instr).class = INSTR_CLASS_RET
    /\ ~PtrRead(m, VMPtr("callStack", WrapSub(m.csp, 1), 0), 0).err

\* whether the step from m to m1 dispatched a call whose callStackPush
\* stored a return address (lines 967-970 from line 1220)
CallTransferred(m, m1) ==
    /\ ~m.stopped
    /\ ~fetch(m).err
    /\ Decode(fetch(m).instr).class = INSTR_CLASS_B
    /\ And(Decode(fetch(m).instr).c0, 4)
    /\ m1.csp # m.csp

\* the calls in progress after the step from m to m1
framesAfter(m, m1) ==
    IF CallTransferred(m, m1)
    THEN Append(frames, [a |-> m.registers[REG_PC].value, csp |-> m.csp])
    ELSE IF RetTransfers(m) /\ frames # <<>> THEN SubSeq(frames, 1, Len(frames) - 1)
    ELSE frames

\* one call of step(), from the page or from the loop of run()
StepCall(host) ==
    /\ steps < MaxSteps
    /\ LET called(m) ==
               /\ vm' = Caught(m)
               /\ thrown' = m.err
               /\ returned' = IF m.err THEN returned ELSE m.exitValue
               /\ running' = (running /\ ~m.err)
               /\ frames' = framesAfter(vm, m)
       IN  called(step(vm, host))
    /\ steps' = steps + 1
    /\ phase' = "executing"
    /\ prev' = vm
    /\ lastOp' = "step"
    /\ UNCHANGED <<pushes, loaded, asm>>

\* vm.step()
Step(host) ==
    /\ phase \in {"loaded", "executing"}
    /\ ~running
    /\ StepCall(host)

\* vm.run(): the call begins
RunBegin ==
    /\ phase \in {"loaded", "executing"}
    /\ ~running
    /\ running' = TRUE
    /\ phase' = "executing"
    /\ thrown' = FALSE
    /\ lastOp' = "run"
    /\ UNCHANGED <<vm, pushes, steps, returned, prev, frames, loaded, asm>>

\* vm.run(): one turn of the loop
RunStep(host) ==
    /\ running
    /\ ~vm.stopped
    /\ StepCall(host)

\* vm.run(): the loop ends and the exit value is returned
RunReturn ==
    /\ running
    /\ vm.stopped
    /\ running' = FALSE
    /\ returned' = vm.exitValue
    /\ thrown' = FALSE
    /\ lastOp' = "run"
    /\ UNCHANGED <<vm, phase, pushes, steps, prev, frames, loaded, asm>>

Next ==
    \/ SetEnvironment
    \/ \E buf \in Programs : LoadProgram(buf)
    \/ \E buf \in ProgramsReload : Reload(buf)
    \/ \E v \in PushValues : StackPush(v)
    \/ \E host \in HostFor(vm) : Step(host)
    \/ RunBegin
    \/ \E host \in HostFor(vm) : RunStep(host)
    \/ RunReturn

Spec == Init /\ [][Next]_vars

(***************************************************************************)
(* The page assembles and links its program before the VM runs (lines      *)
(* 2190-2191): assemble(code), then link(objects).                         *)
(***************************************************************************)
AsmInit ==
    /\ vm = reset(Blank)
    /\ phase = "setup"
    /\ pushes = 0
    /\ steps = 0
    /\ running = FALSE
    /\ thrown = FALSE
    /\ returned = ExitUndefined
    /\ prev = reset(Blank)
    /\ lastOp = "new"
    /\ frames = <<>>
    /\ loaded = <<>>
    /\ asm \in {Unassembled(code) : code \in Sources}

\* let objects = assembler.assemble(code)
Assemble ==
    LET done(a) ==
            [asm EXCEPT !.stage = IF a.err THEN "failed" ELSE "assembled", !.a = a]
    IN  /\ asm.stage = "source"
        /\ \E draws \in Draws : asm' = done(assemble(asm.code, draws))
        /\ UNCHANGED <<vm, phase, pushes, steps, running, thrown, returned, prev, lastOp,
                       frames, loaded>>

\* let executable = linker.link(objects)
Link ==
    LET done(obj) ==
            [asm EXCEPT !.stage = IF obj.err THEN "unlinked" ELSE "linked", !.exe = obj]
    IN  /\ asm.stage = "assembled"
        /\ asm' = done(link(<<asm.a.textObj, asm.a.rodataObj>>))
        /\ UNCHANGED <<vm, phase, pushes, steps, running, thrown, returned, prev, lastOp,
                       frames, loaded>>

AsmNext == Assemble \/ Link

AsmSpec == AsmInit /\ [][AsmNext]_vars

\* run() goes on for as long as the machine is not stopped
FairSpec == Spec /\ WF_vars(\E host \in HostFor(vm) : RunStep(host)) /\ WF_vars(RunReturn)

(***************************************************************************)
(* What the last call of step() did, read from the machine before it       *)
(* (prev) and after it (vm).                                               *)
(***************************************************************************)
\* the last call was a step() of a machine that was not stopped
Stepped == lastOp = "step" /\ ~prev.stopped

\* ... and executeInstruction returned: no exception left the call
Completed == Stepped /\ ~thrown

\* the word the last step read through PC, and its fields
lastInstr == fetch(prev).instr
lastD == Decode(lastInstr)

\* the offset of a register holding a Ptr or an Int
Offset(m, slot) == m.registers[slot].value

\* the instruction d, dispatched on m, transfers control inside the program:
\* a ret, or a b / bc / call / callc whose condition holds and whose register
\* operand, if it has one, is no Ext (lines 1139-1166, 1210-1234)
TakesBranch(m, d) ==
    LET external(g) == And(d.c0, 1) /\ And(d.c0, 4) /\ g.v.type = TYPE_EXT
    IN  \/ d.class = INSTR_CLASS_RET
        \/ /\ d.class = INSTR_CLASS_B
           /\ (And(d.c1, 4) => m.registers[REG_COMP].value # 0)
           /\ ~external(get(m, d.r0))

\* the slot the instruction d writes its result to, -1 when it has none
DestOf(d) ==
    IF d.class = INSTR_CLASS_CMP THEN (IF And(d.c1, 1) THEN d.r1 ELSE REG_COMP)
    ELSE IF d.class \in {INSTR_CLASS_POP, INSTR_CLASS_CVT, INSTR_CLASS_NUM} THEN d.r0
    ELSE IF d.class \in {INSTR_CLASS_ENV, INSTR_CLASS_MEM} /\ d.s = 0 THEN d.r0
    ELSE -1

\* the word instr with slot 3, an ordinary slot, in its destination field
\* instead of slot 0
Retarget(instr) ==
    IF Decode(instr).class = INSTR_CLASS_CMP THEN instr + 3 * Pow2(8)
    ELSE instr + 3 * Pow2(16)

\* PC holds a Ptr into word memory with the given offset
PcIs(m, offset) == SameValue(m.registers[REG_PC], VMPtr("memory", offset, 0))

(***************************************************************************)
(* C1.  Every step that dispatches an instruction which completes without  *)
(* a fault and takes no branch (a conditional branch not taken, a call     *)
(* through an Ext, exit and an instruction with slot 2 as destination      *)
(* included) leaves PC = Ptr(word memory, old PC offset + 1).              *)
(***************************************************************************)
\* C1 as the specification states it, for every reachable state.  The code
\* does not keep it: a step that throws after `this.branching = true`
\* (lines 1090 / 1230, then the irsPush of line 1046) never reaches line
\* 1016, and the next step, finding the flag set, skips line 1013.
C1_PcAdvances ==
    (Completed /\ ~TakesBranch(prev, lastD))
        => PcIs(vm, WrapAdd(Offset(prev, REG_PC), 1))

\* C1 for the steps that begin with the branching flag clear: this much the
\* code keeps
C1_PcAdvancesFlagClear ==
    (Completed /\ ~prev.branching /\ ~TakesBranch(prev, lastD))
        => PcIs(vm, WrapAdd(Offset(prev, REG_PC), 1))

\* the step after a b.abs.r with S whose irsPush threw: it dispatched
\* cvt.ptr.i, which completed and takes no branch, and PC is where it was
C1_Witness ==
    /\ Completed
    /\ prev.branching
    /\ lastD.class = INSTR_CLASS_CVT
    /\ ~TakesBranch(prev, lastD)
    /\ vm.cycles = prev.cycles + 1
    /\ PcIs(vm, Offset(prev, REG_PC))

(***************************************************************************)
(* C2.  A taken branch or call to an Int or Ptr target leaves PC =         *)
(* Ptr(word memory, T): T the signed immediate or the value of r0 for the  *)
(* absolute forms, the old PC offset plus that for the relative forms,     *)
(* with no further + 1.                                                    *)
(***************************************************************************)
\* C2: after every completed step of a class-B instruction that takes its
\* branch inside the program, PC is Ptr(word memory, T)
C2_BranchTarget ==
    LET operand(g) == IF And(lastD.c0, 1) THEN g.v.value ELSE lastD.immSigned
        to(x) ==
            PcIs(vm, IF And(lastD.c0, 2) THEN x ELSE WrapAdd(Offset(prev, REG_PC), x))
    IN  (Completed /\ lastD.class = INSTR_CLASS_B /\ TakesBranch(prev, lastD))
            => to(operand(get(prev, lastD.r0)))

\* a completed call.r through a register holding a Ptr with offset 3
C2_Witness ==
    /\ Completed
    /\ lastD.class = INSTR_CLASS_B
    /\ lastD.c0 = 7
    /\ prev.registers[lastD.r0].type = TYPE_PTR
    /\ prev.registers[lastD.r0].value = 3
    /\ PcIs(vm, 3)
    /\ vm.csp = WrapAdd(prev.csp, 1)

C4_CallRet ==
    [][(steps' = steps + 1 /\ RetTransfers(vm) /\ frames # <<>>)
           => /\ vm'.csp = frames[Len(frames)].csp
              /\ PcIs(vm', WrapAdd(frames[Len(frames)].a, 1))]_vars

\* the second ret of call 2 / call 4 / ret / ret has completed: the inner
\* pair was balanced, and the outer ret came back to offset 1 with CSP 0
C4_Witness ==
    /\ Completed
    /\ lastD.class = INSTR_CLASS_RET
    /\ prev.csp = 1
    /\ Offset(prev, REG_PC) = 3
    /\ vm.cycles = 4
    /\ vm.csp = 0
    /\ PcIs(vm, 1)
    /\ frames = <<>>

(***************************************************************************)
(* C5.  For any Value v, with SP pointing into the data stack at an offset *)
(* in 0 .. 2^16 - 1, a push of v immediately followed by a pop returns the *)
(* identical Value (same tag, same raw bits, same region for a Ptr) and    *)
(* restores SP to its prior offset.                                        *)
(***************************************************************************)
\* the Values pushed in C5: what the registers hold, what the embedder
\* pushes, and an Int and a Float with the top bit set
StackValues(m) ==
    {m.registers[i] : i \in 0..(NUM_REGISTERS - 1)} \cup PushValues
        \cup {VMInt(MinInt32, 0), VMFloat(-1082130432, 0), VMFloat(F32NaN, 0)}

\* C5: in every reachable state whose SP points into the data stack, every
\* push of a Value followed by a pop gives that Value back and SP its offset
C5_PushPop ==
    LET sp == vm.registers[REG_SP]
        back(v, p) ==
            /\ ~p.m.err
            /\ SameValue(p.v, v)
            /\ p.m.registers[REG_SP].memory = "stack"
            /\ p.m.registers[REG_SP].value = sp.value
        round(v, m1) == ~m1.err /\ back(v, stackPop(m1))
    IN  (sp.memory = "stack" /\ sp.value \in 0..(STACK_SIZE - 1))
            => \A v \in StackValues(vm) : round(v, stackPush(vm, v))

\* cvt.int.i $4, 7 / push.r $4 / pop $5 has run: slot 5 holds the object of
\* slot 4 and SP is back at its offset
C5_Witness ==
    /\ Completed
    /\ lastD.class = INSTR_CLASS_POP
    /\ ~And(lastD.c0, 1)
    /\ lastD.r0 = 5
    /\ Decode(IntLoad(vm.memory, Offset(prev, REG_PC) - 1)).class = INSTR_CLASS_PUSH
    /\ vm.cycles = 3
    /\ vm.registers[5] = vm.registers[4]
    /\ SameValue(vm.registers[5], VMInt(7, 0))
    /\ Offset(vm, REG_SP) = Offset(prev, REG_SP) - 1

(***************************************************************************)
(* C6.  With IRSP in range, an IRS push of a 32-bit word n immediately     *)
(* followed by an IRS pop returns n and restores IRSP; a read of slot 27   *)
(* then yields an Int with those 32 bits read signed, a read of slot 28 a  *)
(* Ptr into word memory with the same 32 bits read unsigned, and each such *)
(* read pops exactly one word.                                             *)
(***************************************************************************)
\* the words pushed in C6
IrsWords == {0, 5, -6, -32768, 32767, MinInt32, MaxInt32}

IsZero(y) ==
    \/ y.type = TYPE_INT /\ y.value = 0
    \/ y.type = TYPE_FLOAT /\ y.value \in {0, MinInt32}

\* the last step dispatched a div or a mod of numeric operands with Y zero
DivModByZero ==
    LET second(x, gy) ==
            /\ ~gy.m.err
            /\ isTypeNumeric(x.type)
            /\ isTypeNumeric(gy.v.type)
            /\ IsZero(gy.v)
        first(gx) == ~gx.m.err /\ second(gx.v, get(gx.m, lastD.r2))
    IN  /\ Stepped
        /\ ~fetch(prev).err
        /\ lastD.class = INSTR_CLASS_NUM
        /\ lastD.c0 \in {3, 4}
        /\ first(get(prev, lastD.r1))

\* C7 as the specification states it.  The code does not keep it: lines
\* 1411-1418 divide and take the remainder without looking at Y, and lines
\* 1434-1440 write the result (0 for an Int, an infinity or NaN for a Float)
C7_DivModZeroFaults ==
    DivModByZero => (thrown /\ vm.registers[lastD.r0] = prev.registers[lastD.r0])

\* what the code does instead: the step completes and r0 holds a new object
C7_DivModZeroCompletes ==
    (DivModByZero /\ lastD.r0 \notin {REG_ZERO, REG_IPOP, REG_IPTR, REG_POP}
                  /\ lastD.r0 \notin {REG_PC, REG_IRSP, REG_SP, REG_PUSH})
        => (~thrown /\ vm.registers[lastD.r0].id # prev.registers[lastD.r0].id)

\* cvt.int.i $4, -7 / div $6, $4, $0 has completed and slot 6 holds Int 0
C7_Witness ==
    /\ DivModByZero
    /\ ~thrown
    /\ lastD.c0 = 3
    /\ lastD.s = 0
    /\ lastD.r0 = 6
    /\ SameValue(prev.registers[lastD.r1], VMInt(-7, 0))
    /\ SameValue(vm.registers[6], VMInt(0, 0))

(***************************************************************************)
(* C8.  A data-stack pop at SP offset 0 (the pop instruction or a read of  *)
(* slot 31) and an IRS pop at IRSP offset 0 (ipop.int, ipop.ptr or a read  *)
(* of slot 27 / 28) raise a fault instead of delivering a value to the     *)
(* destination.                                                            *)
(***************************************************************************)
\* the slots the handler of d reads as operands when nothing throws before
\* the read (the calls of registers.get of lines 1056-1493)
Operands(m, d) ==
    CASE d.class \in {INSTR_CLASS_EXIT, INSTR_CLASS_PUSH} ->
             IF And(d.c0, 1) THEN {d.r0} ELSE {}
      [] d.class = INSTR_CLASS_ENV ->
             {d.r1} \cup (IF And(d.c0, 1) THEN {d.r2} ELSE {})
                    \cup (IF d.s = 1 THEN {d.r0} ELSE {})
      [] d.class = INSTR_CLASS_B ->
             IF And(d.c0, 1) /\ (And(d.c1, 4) => m.registers[REG_COMP].value # 0)
             THEN {d.r0} ELSE {}
      [] d.class = INSTR_CLASS_CMP ->
             {d.r0} \cup (IF And(d.c1, 1) /\ d.c0 \notin {3, 7} THEN {d.r2} ELSE {})
      [] d.class = INSTR_CLASS_CVT ->
             IF And(d.c1, 1) /\ d.c0 # TYPE_NULL THEN {d.r2} ELSE {}
      [] d.class = INSTR_CLASS_NUM -> {d.r1, d.r2}
      [] d.class = INSTR_CLASS_MEM ->
             {d.r1, d.r2} \cup (IF d.s = 1 THEN {d.r0} ELSE {})
      [] d.class = INSTR_CLASS_SYS ->
             IF d.s = 0 /\ And(d.c0, 1) THEN {d.r0} ELSE {}
      [] OTHER -> {}

\* the last step delivered nothing: but for the two stack pointers every
\* slot holds the object it held, and the data stack, word memory, the
\* environment and the exit value are what they were
NothingDelivered ==
    /\ \A i \in (0..(NUM_REGISTERS - 1)) \ {REG_IRSP, REG_SP} :
           vm.registers[i] = prev.registers[i]
    /\ vm.stack = prev.stack
    /\ vm.memory = prev.memory
    /\ vm.env = prev.env
    /\ vm.props = prev.props
    /\ vm.exitValue = prev.exitValue

\* C8: a step that begins with SP at offset 0 and dispatches pop or an
\* instruction reading slot 31, and a step that begins with IRSP at offset 0
\* and dispatches ipop.int, ipop.ptr or an instruction reading slot 27 or
\* 28, throws and delivers nothing
C8_EmptyPopFaults ==
    LET dispatched == Stepped /\ ~fetch(prev).err
        dataPop ==
            \/ lastD.class = INSTR_CLASS_POP /\ ~And(lastD.c0, 1)
            \/ REG_POP \in Operands(prev, lastD)
        irsPopped ==
            \/ lastD.class = INSTR_CLASS_POP /\ And(lastD.c0, 1)
            \/ Operands(prev, lastD) \cap {REG_IPOP, REG_IPTR} # {}
    IN  /\ (dispatched /\ Offset(prev, REG_SP) = 0 /\ dataPop)
               => (thrown /\ NothingDelivered)
        /\ (dispatched /\ Offset(prev, REG_IRSP) = 0 /\ irsPopped)
               => (thrown /\ NothingDelivered)

\* pop $4 on the empty data stack threw; SP went below offset 0
C8_Witness ==
    /\ Stepped
    /\ thrown
    /\ lastD.class = INSTR_CLASS_POP
    /\ ~And(lastD.c0, 1)
    /\ lastD.r0 = 4
    /\ Offset(prev, REG_SP) = 0
    /\ Offset(vm, REG_SP) = -1
    /\ vm.registers[4] = prev.registers[4]

(***************************************************************************)
(* C9.  A register-register cmp (c0 in {000, 001, 010, 100, 101, 110})     *)
(* whose two operands are Ptrs into different regions faults and writes no *)
(* destination; so does a cmp of a Ptr with a non-Ptr register, and so     *)
(* does an immediate comparison (other than c.not) of a Ptr.               *)
(***************************************************************************)
\* C9: a step that dispatches such a cmp throws, and the destination slot
\* (r1, or COMP for the immediate forms) holds the object it held
C9_CmpPtrFaults ==
    LET regMode == And(lastD.c1, 1)
        dest == DestOf(lastD)
        mixed(x, gy) ==
            /\ ~gy.m.err
            /\ \/ (x.type = TYPE_PTR) # (gy.v.type = TYPE_PTR)
               \/ /\ x.type = TYPE_PTR
                  /\ gy.v.type = TYPE_PTR
                  /\ MemoryOf(x) # MemoryOf(gy.v)
        registers(gx) == ~gx.m.err /\ mixed(gx.v, get(gx.m, lastD.r2))
        immediate(gx) == ~gx.m.err /\ gx.v.type = TYPE_PTR
    IN  (/\ Stepped
         /\ ~fetch(prev).err
         /\ lastD.class = INSTR_CLASS_CMP
         /\ \/ regMode /\ lastD.c0 \in {0, 1, 2, 4, 5, 6} /\ registers(get(prev, lastD.r0))
            \/ ~regMode /\ lastD.c0 # 4 /\ immediate(get(prev, lastD.r0)))
            => (thrown /\ vm.registers[dest] = prev.registers[dest])

\* c.eq.r $4, $26, $29 threw: IRSP points into the IRS, SP into the data stack
C9_Witness ==
    /\ Stepped
    /\ thrown
    /\ lastD.class = INSTR_CLASS_CMP
    /\ And(lastD.c1, 1)
    /\ lastD.c0 = 1
    /\ lastD.r0 = REG_IRSP
    /\ lastD.r2 = REG_SP
    /\ prev.registers[REG_IRSP].memory = "irs"
    /\ prev.registers[REG_SP].memory = "stack"
    /\ vm.registers[lastD.r1] = prev.registers[lastD.r1]

(***************************************************************************)
(* C10.  If the word at address a is `b.i 0`, then once PC = a every later *)
(* step leaves PC = a and stopped false; and a `b.i 1` at a produces       *)
(* exactly the same next state (PC = a + 1, all registers, stacks,         *)
(* memories) as a nop at a.                                                *)
(***************************************************************************)
\* the machine after a step of m with nop in the cell PC points to
afterNop(m) ==
    LET host == [throws |-> FALSE, res |-> HostUndefined]
    IN  step([m EXCEPT !.memory = IntStore(@, Offset(m, REG_PC), nop)], host)

\* the registers, the stacks and the flags of two machines agree
SameMachine(m1, m2) ==
    /\ \A i \in 0..(NUM_REGISTERS - 1) : SameValue(m1.registers[i], m2.registers[i])
    /\ m1.stack = m2.stack
    /\ m1.callStack = m2.callStack
    /\ m1.irs = m2.irs
    /\ m1.csp = m2.csp
    /\ m1.stopped = m2.stopped
    /\ m1.err = m2.err

\* a step of `b.i 0` through a PC in word memory leaves PC, the program and
\* stopped as they were, so that the next step dispatches it again
C10_Idle ==
    (Stepped /\ ~fetch(prev).err /\ lastInstr = b_i(0))
        => /\ ~thrown
           /\ PcIs(vm, Offset(prev, REG_PC))
           /\ ~vm.stopped
           /\ vm.memory = prev.memory

\* a step of `b.i 1` gives the machine a step of nop in its place gives
C10_Skip ==
    LET as(m1) ==
            /\ SameMachine([vm EXCEPT !.err = thrown], m1)
            /\ vm.memory = prev.memory
            /\ PcIs(vm, WrapAdd(Offset(prev, REG_PC), 1))
    IN  (Stepped /\ ~fetch(prev).err /\ lastInstr = b_i(1)) => as(afterNop(prev))

\* C10 as the specification states it.  The code keeps the first half; it
\* does not keep the second when the step begins with the branching flag
\* left set by a step that threw: nop then leaves PC at a (line 1012), and
\* `b.i 1` moves it to a + 1.
C10_IdleAndSkip == C10_Idle /\ C10_Skip

\* C10 for the steps that begin with the branching flag clear: this much
\* the code keeps
C10_IdleAndSkipFlagClear == (Stepped /\ ~prev.branching) => (C10_Idle /\ C10_Skip)

\* the step after a b.abs.r with S whose irsPush threw: it dispatched
\* `b.i 1` at offset 3 and left PC at 4, where a nop leaves it at 3
C10_Witness ==
    LET stays(m1) == ~m1.err /\ PcIs(m1, 3)
    IN  /\ Completed
        /\ prev.branching
        /\ lastInstr = b_i(1)
        /\ Offset(prev, REG_PC) = 3
        /\ PcIs(vm, 4)
        /\ stays(afterNop(prev))

(***************************************************************************)
(* C11.  An exit instruction sets stopped to true and sets the exit value  *)
(* to imm_signed (c0 bit 0 clear) or to the Value held in r0 (c0 bit 0     *)
(* set); it pushes nothing onto the IRS even when bit 27 is set; run()     *)
(* then returns exactly that exit value.                                   *)
(***************************************************************************)
\* the last call of step() dispatched an instruction that returned: the
\* cycle count went up (line 1049)
Executed == ~prev.stopped /\ ~fetch(prev).err /\ vm.cycles = prev.cycles + 1

\* the exit value an exit instruction d sets on the machine m
ExitValueOf(m, d) ==
    LET held(g) == ExitObject(g.v)
    IN  IF And(d.c0, 1) THEN held(get(m, d.r0)) ELSE ExitNumber(d.immSigned)

\* C11: after every completed step of an exit the machine is stopped, the
\* exit value is the immediate or the object read from r0, the IRS holds
\* the words it held and IRSP moved only by a read of slot 27 or 28; step()
\* returned that value, and so does a run() that ends on it
C11_Exit ==
    LET readsIrs == And(lastD.c0, 1) /\ lastD.r0 \in {REG_IPOP, REG_IPTR}
    IN  /\ (Completed /\ lastD.class = INSTR_CLASS_EXIT)
               => /\ vm.stopped
                  /\ vm.exitValue = ExitValueOf(prev, lastD)
                  /\ returned = ExitValueOf(prev, lastD)
                  /\ vm.irs = prev.irs
                  /\ vm.registers[REG_IRSP].memory = prev.registers[REG_IRSP].memory
                  /\ Offset(vm, REG_IRSP) =
                         IF readsIrs THEN WrapSub(Offset(prev, REG_IRSP), 1)
                         ELSE Offset(prev, REG_IRSP)
        /\ (lastOp = "run" /\ ~running /\ Executed /\ lastD.class = INSTR_CLASS_EXIT)
               => returned = ExitValueOf(prev, lastD)

\* run() has returned from cvt.int.i $4, 7 / exit.r $4 with the S bit: the
\* value is the Int 7 of slot 4 and the IRS is empty
C11_Witness ==
    /\ lastOp = "run"
    /\ ~running
    /\ Executed
    /\ lastD.class = INSTR_CLASS_EXIT
    /\ lastD.s = 1
    /\ And(lastD.c0, 1)
    /\ vm.stopped
    /\ returned = ExitObject(vm.registers[4])
    /\ SameValue(returned.obj, VMInt(7, 0))
    /\ vm.irs = EmptyRegion
    /\ Offset(vm, REG_IRSP) = 0

(***************************************************************************)
(* C12.  A conditional branch or call (c1 bit 2 set) faults when slot 1    *)
(* (comp) does not hold an Int; when it holds an Int the branch is taken   *)
(* iff that Int is non-zero, and when not taken the step changes neither   *)
(* the call stack nor the data stack and PC advances by one.               *)
(***************************************************************************)
\* the last step dispatched a conditional branch or call
Conditional == Stepped /\ ~fetch(prev).err /\ lastD.class = INSTR_CLASS_B /\ And(lastD.c1, 4)

\* the last step did what the unconditional form of its instruction does
\* from the same machine
AsUnconditional ==
    LET same(m) == [Caught(m) EXCEPT !.memory = prev.memory] = vm /\ m.err = thrown
        with(word) ==
            \E host \in HostFor(prev) :
                same(step([prev EXCEPT !.memory = IntStore(@, Offset(prev, REG_PC), word)],
                          host))
    IN  with(lastInstr - 4 * Pow2(21))

\* the last step left the call stack and the data stack as they were
StacksKept ==
    /\ vm.callStack = prev.callStack
    /\ vm.csp = prev.csp
    /\ vm.stack = prev.stack
    /\ vm.registers[REG_SP] = prev.registers[REG_SP]

\* all of C12 but the advance of PC: comp not an Int throws, comp a non-zero
\* Int does what the unconditional form does, comp the Int 0 leaves the
\* stacks alone
C12_Condition ==
    LET comp == prev.registers[REG_COMP]
    IN  /\ (Conditional /\ comp.type # TYPE_INT) => (thrown /\ StacksKept)
        /\ (Conditional /\ comp.type = TYPE_INT /\ comp.value # 0
                        /\ prev.registers[REG_PC].memory = "memory")
               => AsUnconditional
        /\ (Conditional /\ comp.type = TYPE_INT /\ comp.value = 0) => StacksKept

\* a completed conditional branch that is not taken moves PC on by one
C12_NotTakenAdvances ==
    (Conditional /\ ~thrown /\ SameValue(prev.registers[REG_COMP], VMInt(0, 0)))
        => PcIs(vm, WrapAdd(Offset(prev, REG_PC), 1))

\* C12 as the specification states it.  The code keeps C12_Condition; it
\* does not keep the advance of PC when the step begins with the branching
\* flag left set by a step that threw (lines 1012-1016, see C1)
C12_CondBranch == C12_Condition /\ C12_NotTakenAdvances

\* C12 for the steps that begin with the branching flag clear: this much
\* the code keeps
C12_CondBranchFlagClear ==
    C12_Condition /\ ((Stepped /\ ~prev.branching) => C12_NotTakenAdvances)

\* the step after a b.abs.r with S whose irsPush threw: it dispatched bc.i 2
\* at offset 4 with comp the Int 0, completed, and PC is still 4
C12_Witness ==
    /\ Completed
    /\ Conditional
    /\ prev.branching
    /\ lastInstr = bc_i(2)
    /\ SameValue(prev.registers[REG_COMP], VMInt(0, 0))
    /\ Offset(prev, REG_PC) = 4
    /\ vm.cycles = prev.cycles + 1
    /\ StacksKept
    /\ PcIs(vm, 4)

(***************************************************************************)
(* C13.  reset() leaves slots 24 and 25 holding exactly the Values they    *)
(* held before the reset (whatever their tag), sets slot 0 to Int 0 and    *)
(* PC, IRSP, SP to offset-0 Ptrs into word memory, IRS and data stack      *)
(* respectively, and sets every other slot (including comp and PUSH) to    *)
(* Null.                                                                   *)
(***************************************************************************)
\* the last call ran reset(): new VM() or loadProgram()
WasReset == lastOp \in {"new", "loadProgram"}

\* C13: after every call that ran reset(), slots 24 and 25 hold the objects
\* they held when the call began, slots 0, 2, 26 and 29 hold Int 0 and the
\* three offset-0 Ptrs, and every other slot holds a Null
C13_Reset ==
    WasReset
        => /\ vm.registers[REG_P0] = prev.registers[REG_P0]
           /\ vm.registers[REG_P1] = prev.registers[REG_P1]
           /\ SameValue(vm.registers[REG_ZERO], VMInt(0, 0))
           /\ SameValue(vm.registers[REG_PC], VMPtr("memory", 0, 0))
           /\ SameValue(vm.registers[REG_IRSP], VMPtr("irs", 0, 0))
           /\ SameValue(vm.registers[REG_SP], VMPtr("stack", 0, 0))
           /\ \A i \in (0..(NUM_REGISTERS - 1)) \
                       {REG_ZERO, REG_PC, REG_P0, REG_P1, REG_IRSP, REG_SP} :
                  SameValue(vm.registers[i], VMNull(0))

\* the next program was loaded after cvt.int.i $24, 7 / cvt.float.i $25, 3 /
\* cvt.int.i $1, 1 / cvt.int.i $30, 2 had run: slots 24 and 25 still hold
\* the Int and the Float, comp and PUSH are Null again and SP is back at 0
C13_Witness ==
    /\ phase = "reloaded"
    /\ SameValue(prev.registers[REG_P0], VMInt(7, 0))
    /\ SameValue(prev.registers[REG_P1], VMFloat(F32OfInt(3), 0))
    /\ SameValue(prev.registers[REG_COMP], VMInt(1, 0))
    /\ SameValue(prev.registers[REG_PUSH], VMInt(2, 0))
    /\ Offset(prev, REG_SP) = 1
    /\ vm.registers[REG_P0] = prev.registers[REG_P0]
    /\ vm.registers[REG_P1] = prev.registers[REG_P1]
    /\ vm.registers[REG_COMP].type = TYPE_NULL
    /\ vm.registers[REG_PUSH].type = TYPE_NULL
    /\ Offset(vm, REG_SP) = 0

(***************************************************************************)
(* C14.  After load_program(words) from any reachable state (stopped,      *)
(* faulted or running): word memory cell i equals words[i] for             *)
(* i < len(words) and 0 elsewhere, every data-stack cell is Null, every    *)
(* call-stack and IRS cell is 0, PC, SP, IRSP and CSP have offset 0,       *)
(* stopped and branching are false, the exit value is the sentinel and     *)
(* cycles is 0.                                                            *)
(***************************************************************************)
\* C14: in every state reached by loadProgram(loaded), the first or a later
\* one, the machine is as the claim says
C14_Loaded ==
    lastOp = "loadProgram"
        => /\ \A i \in 1..Len(loaded) : IntLoad(vm.memory, i - 1) = loaded[i]
           /\ DOMAIN vm.memory \subseteq 0..(Len(loaded) - 1)
           /\ vm.stack = EmptyRegion
           /\ \A a \in DOMAIN prev.stack : StackLoad(vm, a).type = TYPE_NULL
           /\ vm.callStack = EmptyRegion
           /\ vm.irs = EmptyRegion
           /\ Offset(vm, REG_PC) = 0
           /\ Offset(vm, REG_SP) = 0
           /\ Offset(vm, REG_IRSP) = 0
           /\ vm.csp = 0
           /\ ~vm.stopped
           /\ ~vm.branching
           /\ vm.exitValue = ExitUndefined
           /\ vm.cycles = 0

\* exit.i -1 was loaded over call.i 2 / exit.i 0 / cvt.ptr.i $26, -1 / ret
\* with S, whose ret had thrown in its irsPush: the branching flag was set,
\* the call stack held the return address and word memory four words
C14_Witness ==
    /\ phase = "reloaded"
    /\ loaded = <<exit_i(-1)>>
    /\ prev.branching
    /\ ~prev.stopped
    /\ prev.cycles = 2
    /\ IntLoad(prev.callStack, 0) = 1
    /\ IntLoad(prev.memory, 3) = withS(ret, 4)
    /\ vm.memory = (0 :> exit_i(-1))
    /\ ~vm.branching
    /\ vm.cycles = 0

(***************************************************************************)
(* C15.  In every reachable state slot 29 (SP) holds a Ptr whose region is *)
(* the data stack and slot 26 (IRSP) holds a Ptr whose region is the IRS;  *)
(* a write of any other Value into either slot faults and leaves the slot  *)
(* unchanged.                                                              *)
(***************************************************************************)
\* the region slot 29 / slot 26 is the pointer of
RegionOf(slot) == IF slot = REG_SP THEN "stack" ELSE "irs"

\* Values that are not Ptrs, and Ptrs into each of the regions
NonPointers == {VMNull(0), VMInt(3, 0), VMFloat(F32OfInt(3), 0), VMExt(HostNull, 0)}
Pointers == {VMPtr(region, 1, 0) : region \in {"memory", "stack", "irs"}}

\* the write of obj into the slot throws and the register file is as it was
WriteRefused(slot, obj) ==
    LET refused(m1) == m1.err /\ m1.registers = vm.registers
    IN  refused(set(vm, slot, obj))

\* both slots hold a Ptr
C15_PointerTags ==
    \A slot \in {REG_SP, REG_IRSP} : vm.registers[slot].type = TYPE_PTR

\* a write of a Value that is not a Ptr into either slot is refused
C15_NonPointerRefused ==
    \A slot \in {REG_SP, REG_IRSP} : \A obj \in NonPointers : WriteRefused(slot, obj)

\* a write of a Ptr into another region into either slot is refused
C15_OtherRegionRefused ==
    \A slot \in {REG_SP, REG_IRSP} :
        \A obj \in Pointers : obj.memory # RegionOf(slot) => WriteRefused(slot, obj)

\* both slots hold a Ptr into their own region
C15_Regions ==
    \A slot \in {REG_SP, REG_IRSP} :
        /\ vm.registers[slot].type = TYPE_PTR
        /\ vm.registers[slot].memory = RegionOf(slot)

\* C15: SP is always a Ptr into the data stack and IRSP a Ptr into the IRS,
\* and a write of anything else into either slot throws and changes nothing
C15_StackPointers ==
    C15_Regions /\ C15_NonPointerRefused /\ C15_OtherRegionRefused

\* cvt.ptr.i $29, 3 has completed: SP is a Ptr into word memory at offset 3
C15_Witness ==
    /\ Completed
    /\ lastInstr = cvt_i(TYPE_PTR, REG_SP, 3)
    /\ SameValue(prev.registers[REG_SP], VMPtr("stack", 0, 0))
    /\ SameValue(vm.registers[REG_SP], VMPtr("memory", 3, 0))
    /\ SameValue(vm.registers[REG_IRSP], VMPtr("irs", 0, 0))

(***************************************************************************)
(* C16.  At every step boundary, after a step that completed or faulted,   *)
(* slot 2 (PC) holds a Ptr whose region is word memory.                    *)
(***************************************************************************)
\* slot 2 always holds a Ptr
C16_PointerTag == vm.registers[REG_PC].type = TYPE_PTR

\* after a completed step that did not begin with the branching flag set,
\* PC is a Ptr into word memory
C16_CompletedFlagClear ==
    (Completed /\ ~prev.branching) => vm.registers[REG_PC].memory = "memory"

\* C16: after every step of a machine that was not stopped, completed or
\* thrown, PC is a Ptr into word memory
C16_ProgramCounter ==
    Stepped
        => /\ vm.registers[REG_PC].type = TYPE_PTR
           /\ vm.registers[REG_PC].memory = "memory"

\* pop $2 with S has thrown in its irsPush, IRSP being at the last offset
\* of the IRS: the Ptr into the data stack it had popped stays in PC
C16_Witness ==
    /\ Stepped
    /\ thrown
    /\ lastInstr = withS(pop(REG_PC), 9)
    /\ ~prev.branching
    /\ ~vm.branching
    /\ SameValue(prev.registers[REG_IRSP], VMPtr("irs", -1, 0))
    /\ PcIs(prev, 3)
    /\ SameValue(vm.registers[REG_PC], VMPtr("stack", 0, 0))

(***************************************************************************)
(* C17.  Each write of a Value v to slot 30 (PUSH) pushes exactly v onto   *)
(* the data stack (SP + 1) and a later read of slot 30 returns v without   *)
(* popping; each read of slot 31 (POP) pops exactly one Value (SP - 1) and *)
(* returns it; a write to slot 31, 27 or 28 faults.                        *)
(***************************************************************************)
\* a write of v to slot 30 that does not throw leaves v in the data-stack
\* cell SP was at, SP one cell further in the data stack, and v in slot 30
\* where a read finds it and pops nothing
PushWrites(v) ==
    LET kept(m1, g) == g.v = v /\ g.m = m1
        pushed(m1) ==
            ~m1.err
                => /\ StackLoad(m1, Offset(vm, REG_SP)) = v
                   /\ \A a \in DOMAIN vm.stack :
                          a # Offset(vm, REG_SP) => StackLoad(m1, a) = StackLoad(vm, a)
                   /\ SameValue(m1.registers[REG_SP],
                                VMPtr("stack", WrapAdd(Offset(vm, REG_SP), 1), 0))
                   /\ kept(m1, get(m1, REG_PUSH))
    IN  pushed(set(vm, REG_PUSH, v))

\* a read of slot 31 that does not throw returns the Value of the cell
\* below SP, moves SP one cell down and changes no cell
PopReads ==
    LET popped(g) ==
            ~g.m.err
                => /\ g.v = StackLoad(vm, WrapSub(Offset(vm, REG_SP), 1))
                   /\ SameValue(g.m.registers[REG_SP],
                                VMPtr("stack", WrapSub(Offset(vm, REG_SP), 1), 0))
                   /\ g.m.stack = vm.stack
    IN  popped(get(vm, REG_POP))

\* a write to slot 27, 28 or 31 throws
ReadOnlyRefused ==
    \A slot \in {REG_IPOP, REG_IPTR, REG_POP} :
        \A v \in StackValues(vm) : set(vm, slot, v).err

\* the reads of slot 31 and the writes to slots 27, 28 and 31
C17_PopAndReadOnly == PopReads /\ ReadOnlyRefused

\* the writes to slot 30 while SP is a Ptr into the data stack
C17_PushInStack ==
    vm.registers[REG_SP].memory = "stack" => \A v \in StackValues(vm) : PushWrites(v)

\* C17: every write to slot 30 pushes the Value written and keeps it
\* readable, every read of slot 31 pops one Value, and writes to slots 27,
\* 28 and 31 throw
C17_PushPop ==
    /\ \A v \in StackValues(vm) : PushWrites(v)
    /\ PopReads
    /\ ReadOnlyRefused

\* cvt.int.i $30, 7 has completed with SP a Ptr to offset 3 of word memory:
\* slot 30 holds Int 7, SP is at offset 4 of the data stack and the data
\* stack holds nothing
C17_Witness ==
    /\ Completed
    /\ lastInstr = cvt_i(TYPE_INT, REG_PUSH, 7)
    /\ SameValue(prev.registers[REG_SP], VMPtr("memory", 3, 0))
    /\ SameValue(vm.registers[REG_PUSH], VMInt(7, 0))
    /\ SameValue(vm.registers[REG_SP], VMPtr("stack", 4, 0))
    /\ vm.stack = EmptyRegion

\* cvt.int.i $30, 7 / push.r $30 have completed from an empty data stack:
\* both cells hold the object of slot 30 and SP is at offset 2
C17_WitnessInStack ==
    /\ Completed
    /\ lastInstr = push_r(REG_PUSH)
    /\ SameValue(vm.registers[REG_PUSH], VMInt(7, 0))
    /\ StackLoad(vm, 0) = vm.registers[REG_PUSH]
    /\ StackLoad(vm, 1) = vm.registers[REG_PUSH]
    /\ SameValue(vm.registers[REG_SP], VMPtr("stack", 2, 0))

(***************************************************************************)
(* C18.  A fault stops the VM: after a step has faulted, no later step()   *)
(* executes an instruction (registers, stacks, memories and PC stay as     *)
(* they were at the point of the fault) until reset or load_program.       *)
(***************************************************************************)
\* C18: a step that has thrown leaves the machine stopped, so that step()
\* executes nothing more until the machine is reset
C18_FaultStops == (Stepped /\ thrown) => vm.stopped

\* a step of a stopped machine changes nothing: stopping is what would keep
\* a later step() from executing
C18_StoppedStepIdle == (lastOp = "step" /\ prev.stopped) => vm = prev

\* pop $4 on the empty data stack has thrown for the second time: the first
\* step had left SP at offset -1 and the machine not stopped, and this step
\* executed the pop again and moved SP to offset -2
C18_Witness ==
    /\ Stepped
    /\ thrown
    /\ lastInstr = pop(4)
    /\ prev.cycles = 0
    /\ SameValue(prev.registers[REG_SP], VMPtr("stack", -1, 0))
    /\ SameValue(vm.registers[REG_SP], VMPtr("stack", -2, 0))
    /\ ~vm.stopped

(***************************************************************************)
(* C19.  Dispatching a word whose class is 11, 12, 13 or 14 faults and     *)
(* changes no register, no stack or memory cell, not PC and not the cycle  *)
(* count.                                                                  *)
(***************************************************************************)
\* C19: a step that fetches a word of class 11 .. 14 throws and leaves the
\* whole machine (registers, the four regions, CSP, cycles, the flags, the
\* exit value) as it was
C19_Reserved ==
    (Stepped /\ ~fetch(prev).err /\ lastD.class \in 11..14)
        => thrown /\ vm = prev

\* after push.i 1, the word of class 12 with S, all condition bits, r0 = 31
\* and immediate -1 has thrown: one Value is still on the data stack, PC is
\* still at the word and one cycle is counted
C19_Witness ==
    /\ Stepped
    /\ thrown
    /\ lastInstr = WordA(12, 1, 7, 7, REG_POP, -1)
    /\ lastD.class = 12
    /\ lastD.s = 1
    /\ PcIs(vm, 1)
    /\ Offset(vm, REG_SP) = 1
    /\ vm.irs = EmptyRegion
    /\ vm.cycles = 1

(***************************************************************************)
(* C20.  For every Value v of type Int, Float or Ptr and every pair of     *)
(* types T1, T2 in {int, float, ptr}, applying repr.T2.T1 to v and then    *)
(* repr.T1.T2 to the result yields a Value with the same tag, the same 32  *)
(* raw bits and (for a Ptr) the same region as v.                          *)
(***************************************************************************)
ReprTypes == {TYPE_INT, TYPE_FLOAT, TYPE_PTR}

\* the Values repr is applied to: the Int, Float and Ptr Values the
\* registers hold, and Values with the top bit, with more than 24
\* significant bits, with the bits of a float NaN, of a denormal and of
\* -1.0, and Ptrs into each region
ReprValues(m) ==
    {m.registers[i] : i \in {j \in 0..(NUM_REGISTERS - 1) : m.registers[j].type \in ReprTypes}}
        \cup {VMInt(MinInt32, 0), VMInt(16777217, 0), VMInt(2139095041, 0),
              VMFloat(-1082130432, 0), VMFloat(7, 0), VMFloat(2139095041, 0),
              VMFloat(F32NaN, 0), VMPtr("stack", 3, 0), VMPtr("irs", -1, 0),
              VMPtr("memory", 16777217, 0), VMPtr("memory", 2139095041, 0)}

\* the 32 bits are those of a float NaN
IsNaNBits(bits) == Bits(bits, 23, 8) = 255 /\ Bits(bits, 0, 23) # 0

\* repr.from.to applied to obj: obj.reinterpret(from).convert(to)
reprValue(obj, from, to) ==
    LET converted(r) == IF r.err THEN Failed ELSE convert(r.v, to, 0)
    IN  converted(reinterpret(obj, from, 0))

\* a completed repr.from.to $Y, $X between ordinary slots has left
\* reprValue of the Value of slot X in slot Y
C20_ExecCvtIsRepr ==
    (/\ Completed
     /\ lastD.class = INSTR_CLASS_CVT
     /\ lastD.s = 1
     /\ And(lastD.c1, 1)
     /\ lastD.c0 # TYPE_NULL
     /\ lastD.r0 \in 3..25
     /\ lastD.r2 \notin {REG_IPOP, REG_IPTR, REG_POP})
        => LET stored(r) == ~r.err /\ SameValue(vm.registers[lastD.r0], r.v)
           IN  stored(reprValue(prev.registers[lastD.r2], lastD.r1, lastD.c0))

\* repr.a.b and then repr.c.e of the result give back the tag and the bits
\* of v and, when region is asked for, the region of v
ReprBack(v, a, b, c, e, region) ==
    LET same(r2) ==
            /\ ~r2.err
            /\ r2.v.type = v.type
            /\ r2.v.value = v.value
            /\ (v.type = TYPE_PTR /\ region) => r2.v.memory = v.memory
        second(r1) == ~r1.err /\ same(reprValue(r1.v, c, e))
    IN  second(reprValue(v, a, b))

\* reprValue depends on the Value alone, not on the machine: the round trips
\* are evaluated in the states after a load and after each completed repr
ReprEvaluated ==
    \/ phase = "loaded"
    \/ Completed /\ lastD.class = INSTR_CLASS_CVT /\ lastD.s = 1 /\ And(lastD.c1, 1)

\* C20: repr.T2.T1 and then repr.T1.T2 give back every Int, Float and Ptr,
\* for every T1 and T2
C20_ReprRoundTrip ==
    ReprEvaluated
        => \A v \in ReprValues(vm) : \A T1 \in ReprTypes : \A T2 \in ReprTypes :
               ReprBack(v, T2, T1, T1, T2, TRUE)

\* C20 as the code has it: reinterpreting v as T1 (repr.T1.T1) and then as
\* the type T2 of v (repr.T2.T2) gives back the tag and the 32 bits of v,
\* unless the bits are those of a float NaN and T1 or T2 is float; the
\* region of a Ptr comes back when T1 is ptr or the region is word memory
C20_ReinterpretRoundTrip ==
    ReprEvaluated
        => \A v \in ReprValues(vm) : \A T1 \in ReprTypes :
               ~(IsNaNBits(v.value) /\ TYPE_FLOAT \in {T1, v.type})
                   => ReprBack(v, T1, T1, v.type, v.type,
                               T1 = TYPE_PTR \/ v.memory = "memory")

\* cvt.float.i $4, -3 / repr.int.int $5, $4 / repr.float.float $6, $5 has
\* run: slot 5 is the Int with the bits of -3.0 and slot 6 is Float -3.0
C20_Witness ==
    /\ Completed
    /\ lastInstr = repr(TYPE_FLOAT, TYPE_FLOAT, 6, 5)
    /\ SameValue(vm.registers[4], VMFloat(F32OfInt(-3), 0))
    /\ SameValue(vm.registers[5], VMInt(F32OfInt(-3), 0))
    /\ SameValue(vm.registers[6], vm.registers[4])
    /\ vm.registers[5].value # -3

\* cvt.int.i $4, 7 / repr.float.int $5, $4 / repr.int.float $6, $5 has run:
\* slot 5 is Int 0 and slot 6 is Float 0.0, not the Int 7 of slot 4
C20_WitnessLossy ==
    /\ Completed
    /\ lastInstr = repr(TYPE_INT, TYPE_FLOAT, 6, 5)
    /\ SameValue(vm.registers[4], VMInt(7, 0))
    /\ SameValue(vm.registers[5], VMInt(0, 0))
    /\ SameValue(vm.registers[6], VMFloat(0, 0))

(***************************************************************************)
(* C21.  A call through a register holding an Ext handle pops exactly N    *)
(* Values for a declared fixed-arity host function (N its arity), or one   *)
(* Int N followed by exactly N Values for an ordinary host callable (fault *)
(* if that first Value is not Int), passes them with the top of stack as   *)
(* first argument, pushes exactly one result (Ext, or Null when the host   *)
(* returned nothing), leaves CSP and the call stack unchanged, and PC      *)
(* advances by one.                                                        *)
(***************************************************************************)
\* the step executed call.r / callc.r (taken) of an ordinary slot that holds
\* an Ext wrapping a VMEnvFunction or a function
ExternalCall ==
    /\ Stepped
    /\ ~fetch(prev).err
    /\ lastD.class = INSTR_CLASS_B
    /\ And(lastD.c0, 4) /\ And(lastD.c0, 2) /\ And(lastD.c0, 1)
    /\ And(lastD.c1, 4)
           => (prev.registers[REG_COMP].type = TYPE_INT /\ prev.registers[REG_COMP].value # 0)
    /\ lastD.r0 \notin {REG_IPOP, REG_IPTR, REG_POP}
    /\ prev.registers[lastD.r0].type = TYPE_EXT
    /\ prev.registers[lastD.r0].ext.kind \in {"envfunction", "function"}

\* the callable of the external call and whether it is an ordinary function
CalledFunc == prev.registers[lastD.r0].ext
CalledIsFn == CalledFunc.kind = "function"

\* the offset of the first argument's cell plus one, and the count N
ArgsTop == IF CalledIsFn THEN WrapSub(Offset(prev, REG_SP), 1) ELSE Offset(prev, REG_SP)
ArgCount ==
    IF CalledIsFn THEN StackLoad(prev, WrapSub(Offset(prev, REG_SP), 1)).value
    ELSE CalledFunc.args

\* what a completed external call has done to the stacks: the N arguments
\* are the N cells below ArgsTop, top first, SP is one above the cell that
\* holds the one result, and the call stack is as it was
ExternalCallStacks ==
    /\ vm.lastCall.func = CalledFunc
    /\ Len(vm.lastCall.args) = ArgCount
    /\ \A i \in 1..ArgCount : vm.lastCall.args[i] = StackLoad(prev, ArgsTop - i)
    /\ SameValue(vm.registers[REG_SP], VMPtr("stack", ArgsTop - ArgCount + 1, 0))
    /\ StackLoad(vm, ArgsTop - ArgCount).type \in {TYPE_NULL, TYPE_EXT}
    /\ \A a \in DOMAIN prev.stack :
           a < ArgsTop - ArgCount => StackLoad(vm, a) = StackLoad(prev, a)
    /\ vm.callStack = prev.callStack
    /\ vm.csp = prev.csp

\* an ordinary function called with a Value that is not an Int on top
CountNotInt ==
    /\ CalledIsFn
    /\ Offset(prev, REG_SP) \in 1..STACK_SIZE
    /\ StackLoad(prev, Offset(prev, REG_SP) - 1).type # TYPE_INT

\* the stacks after an external call, and the fault on a count that is not
\* an Int
C21_ExternalCallStacks ==
    ExternalCall => /\ ~thrown => ExternalCallStacks
                    /\ CountNotInt => thrown

\* PC after an external call that began with the branching flag clear
C21_ExternalCallFlagClear ==
    (ExternalCall /\ ~thrown /\ ~prev.branching)
        => PcIs(vm, Offset(prev, REG_PC) + 1)

\* C21: an external call that completes has popped its arguments top
\* first, pushed one result, kept the call stack and moved PC by one; a
\* count that is not an Int faults
C21_ExternalCall ==
    ExternalCall => /\ ~thrown => (ExternalCallStacks /\ PcIs(vm, Offset(prev, REG_PC) + 1))
                    /\ CountNotInt => thrown

\* call.r $4 of the function `new` with the count 0 on top has completed in
\* a step that began with the branching flag left set by the b.abs.r with
\* S that threw: one result replaced the count and PC is still at the call
C21_Witness ==
    /\ ExternalCall
    /\ ~thrown
    /\ prev.branching
    /\ CalledIsFn
    /\ ArgCount = 0
    /\ lastInstr = call_r(4)
    /\ PcIs(prev, 5)
    /\ PcIs(vm, 5)
    /\ Offset(vm, REG_SP) = 1
    /\ vm.cycles = prev.cycles + 1

\* callc.r $4 of vmbind (arity 2) with comp = 1 has completed: Int 8, the
\* top, is its first argument and Int 7 its second, one result is on the
\* data stack and PC has moved by one
C21_WitnessArgs ==
    /\ ExternalCall
    /\ ~thrown
    /\ ~CalledIsFn
    /\ lastInstr = WordA(INSTR_CLASS_B, 0, 7, 4, 4, 0)
    /\ SameValue(vm.lastCall.args[1], VMInt(8, 0))
    /\ SameValue(vm.lastCall.args[2], VMInt(7, 0))
    /\ Offset(prev, REG_SP) = 2
    /\ Offset(vm, REG_SP) = 1
    /\ PcIs(vm, Offset(prev, REG_PC) + 1)

(***************************************************************************)
(* C26.  After ipop.ptr (class 3, c0 low bits 11) with a general-purpose   *)
(* destination r0, r0 holds a Ptr whose region is word memory and whose    *)
(* offset equals the word just popped from the IRS (taken as unsigned),    *)
(* and IRSP has decreased by one.                                          *)
(***************************************************************************)
\* the step completed ipop.ptr without S into one of the slots 3 .. 23
IpopPtr ==
    /\ Completed
    /\ lastD.class = INSTR_CLASS_POP
    /\ And(lastD.c0, 1) /\ And(lastD.c0, 2)
    /\ lastD.s = 0
    /\ lastD.r0 \in 3..23

\* IRSP is one cell lower in the IRS and the destination holds a new Ptr
C26_IrspDecreased ==
    IpopPtr
        => /\ SameValue(vm.registers[REG_IRSP],
                        VMPtr("irs", WrapSub(Offset(prev, REG_IRSP), 1), 0))
           /\ vm.irs = prev.irs
           /\ vm.registers[lastD.r0].type = TYPE_PTR
           /\ vm.registers[lastD.r0] # prev.registers[lastD.r0]

\* C26: after ipop.ptr the destination is the Ptr into word memory whose
\* offset is the word popped, and IRSP is one cell lower
C26_IpopPtr ==
    IpopPtr
        => /\ SameValue(vm.registers[lastD.r0],
                        VMPtr("memory", IntLoad(prev.irs, WrapSub(Offset(prev, REG_IRSP), 1)), 0))
           /\ SameValue(vm.registers[REG_IRSP],
                        VMPtr("irs", WrapSub(Offset(prev, REG_IRSP), 1), 0))

\* nop with S (imm -1) / ipop.ptr $4 has run: slot 4 is a Ptr with offset
\* 0 whose memory field is the number -1, and IRSP is back at offset 0
C26_Witness ==
    /\ IpopPtr
    /\ lastInstr = ipop_ptr(4)
    /\ IntLoad(prev.irs, 0) = -1
    /\ Offset(prev, REG_IRSP) = 1
    /\ Offset(vm, REG_IRSP) = 0
    /\ vm.registers[4].type = TYPE_PTR
    /\ vm.registers[4].value = 0
    /\ vm.registers[4].memory = "number"
    /\ vm.registers[4].ext = HostNumber(IntToNum(-1))

(***************************************************************************)
(* C27.  A mem read or write accesses the region carried by the Ptr in r1: *)
(* through a Ptr into the data stack (object memory), read returns the     *)
(* Value stored in that stack cell verbatim whatever T is, and write       *)
(* stores the Value of r0 into that stack cell for any tag (including Null *)
(* and Ext), leaving word memory unchanged.                                *)
(***************************************************************************)
\* the step executed a mem instruction between slots without side effects
MemAccess ==
    /\ Stepped
    /\ ~fetch(prev).err
    /\ lastD.class = INSTR_CLASS_MEM
    /\ {lastD.r0, lastD.r1, lastD.r2} \cap {REG_IPOP, REG_IPTR, REG_POP, REG_PUSH} = {}
    /\ prev.registers[lastD.r1].type = TYPE_PTR
    /\ prev.registers[lastD.r2].type \in {TYPE_INT, TYPE_PTR}

\* ptr.getValue() + offset.getValue() of the access
MemAddress == memAddr(prev.registers[lastD.r1], prev.registers[lastD.r2])

\* the access is through a Ptr into the data stack, to a cell of it
ThroughStackPtr ==
    /\ MemAccess
    /\ prev.registers[lastD.r1].memory = "stack"
    /\ MemAddress \in 0..(STACK_SIZE - 1)

\* what the code does: every completed access is to word memory, whatever
\* the region of the Ptr; the data stack is never touched
C27_WordMemoryAccessed ==
    (MemAccess /\ ~thrown)
        => /\ vm.stack = prev.stack
           /\ lastD.s = 1
                  => vm.memory = IntStore(prev.memory, MemAddress, prev.registers[lastD.r0].value)
           /\ (lastD.s = 0 /\ lastD.r0 \in 3..25)
                  => /\ vm.memory = prev.memory
                     /\ SameValue(vm.registers[lastD.r0],
                                  reinterpret(VMInt(IntLoad(prev.memory, MemAddress), 0),
                                              lastD.c0, 0).v)

\* C27: a read through a Ptr into the data stack gives the Value of the
\* stack cell, a write through it stores the Value of r0, of any tag, in
\* the stack cell, and word memory stays as it was
C27_StackAccess ==
    ThroughStackPtr
        => /\ ~thrown
           /\ vm.memory = prev.memory
           /\ (lastD.s = 0 /\ lastD.r0 \in 3..25)
                  => vm.registers[lastD.r0] = StackLoad(prev, MemAddress)
           /\ lastD.s = 1 => StackLoad(vm, MemAddress) = prev.registers[lastD.r0]

\* cvt.int.i $4, 5 / write $4, $29, $0 has completed: the data stack is
\* still empty and word 0 of word memory, the cvt word before, is 5
C27_Witness ==
    /\ ThroughStackPtr
    /\ ~thrown
    /\ lastInstr = write(4, REG_SP, REG_ZERO)
    /\ SameValue(prev.registers[REG_SP], VMPtr("stack", 0, 0))
    /\ SameValue(prev.registers[4], VMInt(5, 0))
    /\ IntLoad(prev.memory, 0) = cvt_i(TYPE_INT, 4, 5)
    /\ IntLoad(vm.memory, 0) = 5
    /\ vm.stack = EmptyRegion

\* push.i 7 / cvt.int.i $4, -1 / read.int $5, $29, $4 has completed: slot 5
\* is the Int with the bits of word 0 of word memory, not the Int 7 of
\* stack cell 0
C27_WitnessRead ==
    /\ ThroughStackPtr
    /\ ~thrown
    /\ lastInstr = read(TYPE_INT, 5, REG_SP, 4)
    /\ MemAddress = 0
    /\ SameValue(StackLoad(prev, 0), VMInt(7, 0))
    /\ SameValue(vm.registers[5], VMInt(push_i(7), 0))

(***************************************************************************)
(* C28.  A mem read whose destination type code T is null (000) or ext     *)
(* (100) faults and leaves the destination register r0 unchanged.          *)
(***************************************************************************)
\* the step executed read.T with code T, between slots without side effects
MemRead(T) ==
    /\ Stepped
    /\ ~fetch(prev).err
    /\ lastD.class = INSTR_CLASS_MEM
    /\ lastD.s = 0
    /\ lastD.c0 = T
    /\ {lastD.r0, lastD.r1, lastD.r2} \cap {REG_IPOP, REG_IPTR, REG_POP, REG_PUSH} = {}

C28_ReadExtFaults ==
    MemRead(TYPE_EXT) => thrown /\ vm.registers = prev.registers

\* read.null faults only where every read does (r1 not a Ptr, r2 neither
\* Int nor Ptr, address outside word memory); otherwise it stores a Null
C28_ReadNullStoresNull ==
    MemRead(TYPE_NULL)
        => /\ thrown <=> \/ prev.registers[lastD.r1].type # TYPE_PTR
                         \/ prev.registers[lastD.r2].type \notin {TYPE_INT, TYPE_PTR}
                         \/ MemAddress \notin 0..(MAIN_MEMORY_SIZE - 1)
           /\ (~thrown /\ lastD.r0 \in 3..25)
                  => vm.registers[lastD.r0].type = TYPE_NULL

C28_WitnessNull ==
    /\ MemRead(TYPE_NULL)
    /\ ~thrown
    /\ lastInstr = read(TYPE_NULL, 5, REG_PC, REG_ZERO)
    /\ SameValue(prev.registers[5], VMInt(7, 0))
    /\ vm.registers[5].type = TYPE_NULL

(***************************************************************************)
(* C29.  Every branch-class instruction with the call bit set and the      *)
(* absolute bit clear (a relative call) faults, in immediate and register  *)
(* mode, unconditional and conditional, whatever the comparison register   *)
(* holds.                                                                  *)
(***************************************************************************)
\* the step executed a relative call: class b, call bit set, absolute clear
RelativeCall ==
    /\ Stepped
    /\ ~fetch(prev).err
    /\ lastD.class = INSTR_CLASS_B
    /\ And(lastD.c0, 4)
    /\ ~And(lastD.c0, 2)

\* the conditional bit is set and the comparison register holds the Int 0
NotTaken ==
    /\ And(lastD.c1, 4)
    /\ prev.registers[REG_COMP].type = TYPE_INT
    /\ prev.registers[REG_COMP].value = 0

\* C29: every relative call faults
C29_RelativeCallFaults == RelativeCall => thrown

\* what the code does: a relative call faults exactly when it is taken
\* (or its comparison register is no Int); one that is not taken completes
\* and leaves the call stack and the data stack alone
C29_TakenRelativeCallFaults ==
    RelativeCall
        => /\ thrown <=> ~NotTaken
           /\ ~thrown => /\ vm.callStack = prev.callStack
                         /\ vm.stack = prev.stack
                         /\ SameValue(vm.registers[REG_SP], prev.registers[REG_SP])

\* cvt.int.i $1, 0 and then the conditional relative call in register mode
\* (c0 = 101, c1 = 100) has completed
C29_Witness ==
    /\ RelativeCall
    /\ NotTaken
    /\ ~thrown
    /\ lastInstr = WordA(INSTR_CLASS_B, 0, 5, 4, 4, 0)

\* the conditional relative call in immediate mode has faulted with the
\* Int 1 in the comparison register
C29_WitnessTaken ==
    /\ RelativeCall
    /\ thrown
    /\ lastInstr = WordA(INSTR_CLASS_B, 0, 4, 4, 0, 2)
    /\ SameValue(prev.registers[REG_COMP], VMInt(1, 0))

(***************************************************************************)
(* C23.  For every mnemonic, every register argument in 0..31 and every    *)
(* immediate argument n with -32768 <= n <= 32767, decoding the word the   *)
(* assembler emits yields the class and the fixed subclass bits of the     *)
(* template of the mnemonic, register fields equal to the given registers  *)
(* and imm_signed = n.                                                     *)
(***************************************************************************)
\* the numerals of a text, in order
Numerals(code) ==
    LET lits == SelectSeq(code, LAMBDA x : x.t = "lit")
    IN  [j \in 1..Len(lits) |-> lits[j].n]

\* assemble() was called on a text that is one line, a mnemonic with its
\* arguments: registers in 0..31, immediates in -32768..32767
EncodedLine ==
    /\ asm.stage # "source"
    /\ asm.code # <<>>
    /\ asm.code[1].t = "run"
    /\ asm.code[1].s \in DOMAIN OPS \ {"ipush"}
    /\ Len(Numerals(asm.code)) = Len(OPS[asm.code[1].s].args)
    /\ asm.code = EncodeLine(asm.code[1].s, Numerals(asm.code))
    /\ \A j \in 1..Len(Numerals(asm.code)) :
           IF OPS[asm.code[1].s].args[j][1] = "$"
           THEN Numerals(asm.code)[j] \in 0..31
           ELSE Numerals(asm.code)[j] \in (-32768)..32767

\* the field of the decoded word d at the places of a target of the
\* encoding: r0, r1 or r2 for a register, imm_signed for the immediate
FieldOf(d, encoding, target) ==
    IF encoding[17] = target THEN d.immSigned
    ELSE IF encoding[16] = target THEN d.r0
    ELSE IF encoding[24] = target THEN d.r1
    ELSE d.r2

\* the word has the fixed digits of the encoding, and field(j, n) holds of
\* the decoded field of argument j with value n
EncodedAs(field(_, _, _)) ==
    LET op == OPS[asm.code[1].s]
        vals == Numerals(asm.code)
        decoded(word) ==
            /\ \A j \in 1..32 :
                   /\ op.encoding[j] = "0" => DigitAt(word, j) = 0
                   /\ op.encoding[j] = "1" => DigitAt(word, j) = 1
            /\ \A j \in 1..Len(vals) :
                   field(op.args[j][1],
                         FieldOf(Decode(word), op.encoding, op.args[j][2]), vals[j])
    IN  /\ ~asm.a.err
        /\ Len(asm.a.textObj.data) = 1
        /\ decoded(asm.a.textObj.data[1])

\* C23: every field decodes to the value of its argument
C23_EncodeDecode ==
    EncodedLine => EncodedAs(LAMBDA kind, got, n : got = n)

\* what the code does: the 16 leading digits of the 32 digits of a negative
\* immediate are taken, so that every negative immediate decodes to -1
C23_NegativeImmediate ==
    EncodedLine
        => EncodedAs(LAMBDA kind, got, n : got = IF kind = "#" /\ n < 0 THEN -1 ELSE n)

\* `cvt.int.i $1, #-2` was assembled to the word of cvt.int.i $1, #-1
C23_Witness ==
    /\ EncodedLine
    /\ asm.code = Instr("cvt.int.i", <<Reg(1), Imm(-2)>>)
    /\ asm.stage = "assembled"
    /\ asm.a.textObj.data = <<cvt_i(TYPE_INT, 1, -1)>>

\* `getp $21, $1, $31` was assembled to the word of getp with Y = 21,
\* Z = 1 and X = 31
C23_WitnessRegisters ==
    /\ EncodedLine
    /\ asm.code = Instr("getp", <<Reg(21), Reg(1), Reg(31)>>)
    /\ asm.stage = "assembled"
    /\ Decode(asm.a.textObj.data[1]).class = INSTR_CLASS_ENV
    /\ Decode(asm.a.textObj.data[1]).r0 = 21
    /\ Decode(asm.a.textObj.data[1]).r1 = 31
    /\ Decode(asm.a.textObj.data[1]).r2 = 1

(***************************************************************************)
(* C25.  When a label and an instruction share one source line, as in      *)
(* `start: cvt.int.i $3, #1; b.i ^start`, the label is bound to the text   *)
(* offset of that instruction and the instruction is emitted, so that      *)
(* after linking the word of the following `b.i ^start` has the low 16     *)
(* bits 0xFFFF (-1).                                                       *)
(***************************************************************************)
\* link() was called, or assemble() threw, on the text
Processed(code) == asm.code = code /\ asm.stage \in {"failed", "unlinked", "linked"}

\* C25: the instruction after the label is word 0, the label is offset 0
\* and the branch is word 1 with the displacement -1
C25_LabelAndInstruction ==
    Processed(SourceLabelAndInstruction)
        => /\ asm.stage = "linked"
           /\ asm.a.textObj.labels = ("start" :> 0)
           /\ asm.exe.data = <<cvt_i(TYPE_INT, 3, 1), b_i(-1)>>
           /\ Decode(asm.exe.data[2]).imm = 65535

\* what the code does: the line of a label ends at the label, the rest of
\* it up to ";" is dropped, and the branch is word 0 with displacement 0
C25_InstructionDropped ==
    Processed(SourceLabelAndInstruction)
        => /\ asm.stage = "linked"
           /\ asm.a.textObj.labels = ("start" :> 0)
           /\ asm.exe.data = <<b_i(0)>>

\* with the label on a line of its own the three lines give the two words
C25_LabelAlone ==
    Processed(SourceLabelAlone)
        => /\ asm.stage = "linked"
           /\ asm.a.textObj.labels = ("start" :> 0)
           /\ asm.exe.data = <<cvt_i(TYPE_INT, 3, 1), b_i(-1)>>

\* `start: cvt.int.i $3, #1; b.i ^start` was assembled and linked to the
\* one word b.i 0
C25_Witness ==
    /\ Processed(SourceLabelAndInstruction)
    /\ asm.stage = "linked"
    /\ Len(asm.exe.data) = 1
    /\ Decode(asm.exe.data[1]).class = INSTR_CLASS_B
    /\ Decode(asm.exe.data[1]).imm = 0

(***************************************************************************)
(* C24.  assemble rejects an ipush line unless the most recently emitted   *)
(* word of the text object was produced by an instruction whose encoding   *)
(* declares S as meaningful: ipush at the start of the program, after      *)
(* another ipush, after an instruction without S, or after a data          *)
(* directive (.int / .float / .ptr / .str) is an error, and no already     *)
(* emitted word is modified.                                               *)
(***************************************************************************)
\* assemble() was called on the text `before` followed by the line ipush #n
IpushAfter(before, n) ==
    /\ asm.code = before \o Instr("ipush", <<Imm(n)>>)
    /\ asm.stage # "source"

\* the line was rejected and the words are those of the text before it
IpushRejected(before) ==
    LET same(a) == ~a.err /\ asm.a.textObj.data = a.textObj.data
    IN  asm.a.err /\ same(assemble(before, <<0, 0>>))

\* the line was accepted: the last word of the text before it has S set and
\* the low 16 bits of the argument, and no other word is modified
IpushApplied(before) ==
    LET rewritten(old, new) ==
            /\ Len(new) = Len(old)
            /\ \A i \in 1..(Len(old) - 1) : new[i] = old[i]
            /\ Decode(new[Len(new)]).s = 1
        same(a) == ~a.err /\ rewritten(a.textObj.data, asm.a.textObj.data)
    IN  ~asm.a.err /\ same(assemble(before, <<0, 0>>))

\* C24: accepted after a word of an instruction that declares S, rejected
\* without a change of the words everywhere else
C24_IpushAfterS ==
    \A n \in IpushArgs :
        /\ \A before \in BeforeIpushS : IpushAfter(before, n) => IpushApplied(before)
        /\ \A before \in BeforeIpushOther : IpushAfter(before, n) => IpushRejected(before)

\* the texts that end with a data directive after an instruction that
\* declares S
BeforeIpushData ==
    {Instr("nop", <<>>) \o Directive("int", <<Imm(5)>>),
     Instr("ret", <<>>) \o Directive("float", <<Imm(1)>>),
     Instr("pop", <<Reg(4)>>) \o Directive("ptr", <<Imm(5), Imm(6)>>)}

\* what the code does: lastIrs is that of the last instruction line, and a
\* directive leaves it alone, so ipush after the data of a directive that
\* follows an instruction with S is accepted and rewrites the last word of
\* the data
C24_IpushAfterLastInstruction ==
    \A n \in IpushArgs :
        /\ \A before \in BeforeIpushS \cup BeforeIpushData :
               IpushAfter(before, n) => IpushApplied(before)
        /\ \A before \in BeforeIpushOther \ BeforeIpushData :
               IpushAfter(before, n) => IpushRejected(before)

\* `nop; .int #5; ipush #1` was assembled: the word 5 of the directive is
\* now the word of nop with S set and the immediate 1
C24_Witness ==
    /\ IpushAfter(Instr("nop", <<>>) \o Directive("int", <<Imm(5)>>), 1)
    /\ asm.stage = "assembled"
    /\ asm.a.textObj.data = <<nop, ipush(1)>>

\* ipush #1 at the start of the text, and after push.i #1, was rejected
C24_WitnessRejected ==
    /\ asm.stage = "failed"
    /\ \/ IpushAfter(<<>>, 1) /\ asm.a.textObj.data = <<>>
       \/ IpushAfter(Instr("push.i", <<Imm(1)>>), 1)
              /\ asm.a.textObj.data = <<push_i(1)>>

(***************************************************************************)
(* C22.  After link, for every relocation of every input object, the word  *)
(* at (the base of that object in the output + the site of the relocation) *)
(* keeps its high 16 bits and has low 16 bits equal to (output address of  *)
(* the label) mod 2^16 for an absolute relocation and to (output address   *)
(* of the label - output address of the site) mod 2^16 for a relative one; *)
(* a relocation naming a label defined in no input aborts the link.        *)
(***************************************************************************)
\* the objects given to link(), and the base of each in the output
LinkInputs == <<asm.a.textObj, asm.a.rodataObj>>
LinkBase(k) == IF k = 1 THEN 0 ELSE Len(asm.a.textObj.data)

\* the relocations of the inputs, as <<input, index>>
InputRelocations ==
    {<<k, j>> \in (1..2) \X (1..8) : j <= Len(LinkInputs[k].relocations)}

\* the label of a relocation is defined in an input; its output address
LabelDefined(name) == \E k \in 1..2 : LabelKey(name) \in DOMAIN LinkInputs[k].labels
LabelAddress(name) ==
    LET k == CHOOSE k \in 1..2 : LabelKey(name) \in DOMAIN LinkInputs[k].labels
    IN  LinkBase(k) + LinkInputs[k].labels[LabelKey(name)]

High16(word) == word - (word % 65536)
Low16(word) == word % 65536

\* the word of the output at the site of the relocation kj keeps the high 16
\* bits of the word of the input
KeepsHigh(kj) ==
    LET reloc == LinkInputs[kj[1]].relocations[kj[2]]
        site == LinkBase(kj[1]) + reloc.addr
    IN  /\ site < Len(asm.exe.data)
        /\ reloc.addr < Len(LinkInputs[kj[1]].data)
        /\ High16(asm.exe.data[site + 1]) = High16(LinkInputs[kj[1]].data[reloc.addr + 1])

\* ... and has the address or the displacement of the label in the low 16
Resolved(kj) ==
    LET reloc == LinkInputs[kj[1]].relocations[kj[2]]
        site == LinkBase(kj[1]) + reloc.addr
        target == IF reloc.rel THEN LabelAddress(reloc.label) - site
                  ELSE LabelAddress(reloc.label)
    IN  /\ LabelDefined(reloc.label)
        /\ site < Len(asm.exe.data)
        /\ Low16(asm.exe.data[site + 1]) = target % 65536

\* C22: link() returns only if every label is defined, and then every
\* relocation is resolved in its word
C22_Relocations ==
    /\ asm.stage = "linked" => \A kj \in InputRelocations : KeepsHigh(kj) /\ Resolved(kj)
    /\ (asm.stage = "unlinked" /\ \A kj \in InputRelocations : kj[1] = 1)
           => \E kj \in InputRelocations :
                  ~LabelDefined(LinkInputs[kj[1]].relocations[kj[2]].label)

\* a later relocation of the same input has the same site
Overwritten(kj) ==
    \E j \in (kj[2] + 1)..Len(LinkInputs[kj[1]].relocations) :
        LinkInputs[kj[1]].relocations[j].addr = LinkInputs[kj[1]].relocations[kj[2]].addr

\* what the code does: the high bits are kept; a relocation is resolved in
\* its word unless a later one has the same site, as have all the
\* relocations of the arguments of one directive; a name that no input
\* defines aborts the link unless a plain object inherits it, and then the
\* low 16 bits are 0
C22_LastRelocationOfSite ==
    LET reloc(kj) == LinkInputs[kj[1]].relocations[kj[2]]
        inherited(kj) ==
            /\ LabelKey(reloc(kj).label) \in ObjectPrototypeNames
            /\ Low16(asm.exe.data[LinkBase(kj[1]) + reloc(kj).addr + 1]) = 0
    IN  /\ asm.stage = "linked"
               => \A kj \in InputRelocations :
                      /\ KeepsHigh(kj)
                      /\ Overwritten(kj) \/ Resolved(kj) \/ inherited(kj)
        /\ (asm.stage = "unlinked" /\ \A kj \in InputRelocations : kj[1] = 1)
               => \E kj \in InputRelocations : ~LabelDefined(reloc(kj).label)

\* `nop; b.abs.i &toString` was linked although no input defines toString
C22_Witness ==
    /\ asm.stage = "linked"
    /\ asm.code = Instr("nop", <<>>) \o Instr("b.abs.i", <<Abs("toString")>>)
    /\ asm.exe.data = <<nop, b_abs_i(0)>>

\* `.ptr &aa, &bb; nop; aa:; nop; bb:; ret` was linked: word 0 is the
\* address 4 of bb and word 1, the pointer to bb, is 0
C22_WitnessSameSite ==
    /\ asm.stage = "linked"
    /\ \E kj \in InputRelocations : Overwritten(kj)
    /\ asm.a.textObj.labels = ("aa" :> 3 @@ "bb" :> 4)
    /\ asm.exe.data[1] = 4
    /\ asm.exe.data[2] = 0

\* the text with two float literals, kept in the rodata object, and a
\* label was linked with its three relocations resolved
C22_WitnessResolved ==
    /\ asm.stage = "linked"
    /\ Len(asm.a.rodataObj.data) = 2
    /\ Len(asm.a.textObj.relocations) = 3
    /\ \A kj \in InputRelocations : KeepsHigh(kj) /\ Resolved(kj)
    /\ Decode(asm.exe.data[1]).imm = 3
    /\ Decode(asm.exe.data[2]).imm = 4

(***************************************************************************)
(* C30.  For every mnemonic whose OPS entry has irs = true (nop, push.r,   *)
(* pop, ipop.int, ipop.ptr, ret, b.r, b.abs.r, call.i, call.r, bc.r,       *)
(* bc.abs.r, callc.i, callc.r, c.not, cvt.null.i), executing it with S set *)
(* pushes imm_signed onto the IRS exactly once, after the effects of the   *)
(* handler; for every other variant bit 27 causes no IRS push.             *)
(***************************************************************************)
\* the word has the fixed digits of the encoding
MatchesEncoding(encoding, word) ==
    \A j \in 1..32 :
        /\ encoding[j] = "0" => DigitAt(word, j) = 0
        /\ encoding[j] = "1" => DigitAt(word, j) = 1

\* the mnemonics whose irs is true, and the others but ipush, whose
\* encoding fixes bit 27 only
IrsMnemonics == {mnemonic \in DOMAIN OPS : OPS[mnemonic].irs}
OtherMnemonics == (DOMAIN OPS \ IrsMnemonics) \ {"ipush"}

\* the word is an instruction of a mnemonic of the set
VariantOf(mnemonics, word) ==
    \E mnemonic \in mnemonics : MatchesEncoding(OPS[mnemonic].encoding, word)

\* the last step completed an instruction with bit 27 set
CompletedWithS == Completed /\ ~fetch(prev).err /\ lastD.s = 1

\* the IRS and IRSP after the step are those the handler left on h, with
\* imm_signed pushed once, or not pushed
IrsPushedAfter(h) ==
    LET pushed(p) ==
            /\ ~p.err
            /\ vm.irs = p.irs
            /\ vm.registers[REG_IRSP].value = p.registers[REG_IRSP].value
    IN  /\ ~h.err
        /\ pushed(irsPush(h, lastD.immSigned))
        /\ vm.registers[REG_IRSP].value = WrapAdd(h.registers[REG_IRSP].value, 1)
NoIrsPushAfter(h) ==
    /\ ~h.err
    /\ vm.irs = h.irs
    /\ vm.registers[REG_IRSP].value = h.registers[REG_IRSP].value

\* C30: the push follows the handler for the mnemonics with irs = true and
\* only for them
C30_IrsDeclared ==
    LET after(h) ==
            /\ VariantOf(IrsMnemonics, lastInstr) => IrsPushedAfter(h)
            /\ VariantOf(OtherMnemonics, lastInstr) => NoIrsPushAfter(h)
    IN  CompletedWithS => \E host \in HostFor(prev) : after(handler(prev, lastD, host).m)

\* what the code does: the push follows the value the handler returns, and
\* execB returns its register bit, so that call.i and callc.i, the two
\* mnemonics with irs = true that take an immediate target, push nothing
C30_IrsReturned ==
    LET immediateCall == VariantOf({"call.i", "callc.i"}, lastInstr)
        after(h) ==
            /\ (VariantOf(IrsMnemonics, lastInstr) /\ ~immediateCall) => IrsPushedAfter(h)
            /\ immediateCall => NoIrsPushAfter(h)
            /\ VariantOf(OtherMnemonics, lastInstr) => NoIrsPushAfter(h)
    IN  CompletedWithS => \E host \in HostFor(prev) : after(handler(prev, lastD, host).m)

\* call.i 2 with S set has completed: PC is 2, the return address is on the
\* call stack, and the IRS is empty with IRSP at 0
C30_Witness ==
    /\ CompletedWithS
    /\ lastInstr = withS(call_i(0), 2)
    /\ PcIs(vm, 2)
    /\ vm.csp = 1
    /\ vm.irs = EmptyRegion
    /\ vm.registers[REG_IRSP].value = 0

\* ipop.int $6 with S set and immediate 7 has completed: the 6 that pop
\* with S pushed is in slot 6 and 7 is in its cell of the IRS
C30_WitnessPushed ==
    /\ CompletedWithS
    /\ lastInstr = withS(ipop_int(6), 7)
    /\ VariantOf(IrsMnemonics, lastInstr)
    /\ SameValue(vm.registers[6], VMInt(6, 0))
    /\ vm.registers[REG_IRSP].value = 2
    /\ IntLoad(vm.irs, 1) = 7

\* c.cmp.i $4, 0 with S set has completed without a push
C30_WitnessOther ==
    /\ CompletedWithS
    /\ lastInstr = withS(c_i(0, 4, 0), 1)
    /\ VariantOf(OtherMnemonics, lastInstr)
    /\ vm.irs = prev.irs
    /\ vm.registers[REG_IRSP].value = prev.registers[REG_IRSP].value

(***************************************************************************)
(* C31.  A repr instruction (class cvt, register mode, S set) faults       *)
(* unless the source type F in r1 is int, float or ptr and the Value in r2 *)
(* is an Int, a Float or a Ptr; F = null, and a Null or Ext source, fault  *)
(* and leave the destination unchanged.                                    *)
(***************************************************************************)
\* the last step dispatched a repr
ReprStep ==
    /\ Stepped
    /\ ~fetch(prev).err
    /\ lastD.class = INSTR_CLASS_CVT
    /\ lastD.s = 1
    /\ And(lastD.c1, 1)

\* the destination slot is an ordinary slot and holds what it held
DestinationKept ==
    lastD.r0 \in 3..25 => SameValue(vm.registers[lastD.r0], prev.registers[lastD.r0])

\* C31: the repr has faulted, with the destination kept, unless F and the
\* Value read from r2 are int, float or ptr
C31_ReprFaults ==
    LET after(g) ==
            ~(/\ isTypeNumericOrPtr(lastD.r1)
              /\ ~g.m.err
              /\ isTypeNumericOrPtr(g.v.type))
                => thrown /\ DestinationKept
    IN  ReprStep => after(get(prev, lastD.r2))

\* repr.F.T of a Value of the type faults: T is not null, and F is none of
\* null, int, float, ptr, or F is not null and the Value has no raw view,
\* or the conversion to T of the F made of it is not defined
ReprFaultsOn(type, F, T) ==
    /\ T # TYPE_NULL
    /\ \/ ~(F = TYPE_NULL \/ isTypeNumericOrPtr(F))
       \/ F # TYPE_NULL /\ ~isTypeNumericOrPtr(type)
       \/ ~isTypeNumericOrPtr(T)
       \/ F = TYPE_FLOAT /\ T = TYPE_PTR
       \/ F = TYPE_PTR /\ T = TYPE_FLOAT

\* what the code does: the repr faults exactly when the read of r2 faults or
\* ReprFaultsOn holds, and then the destination is kept; so repr.null.T
\* completes whatever the source is, and so does repr.F.null
C31_ReprFaultsOnConversion ==
    LET after(g) ==
            /\ thrown <=> (g.m.err \/ ReprFaultsOn(g.v.type, lastD.r1, lastD.c0))
            /\ thrown => DestinationKept
    IN  ReprStep => after(get(prev, lastD.r2))

\* repr.null.int $5, $4 has completed with Null in slot 4: slot 5 holds
\* Int 0
C31_Witness ==
    /\ ReprStep
    /\ ~thrown
    /\ lastInstr = repr(TYPE_NULL, TYPE_INT, 5, 4)
    /\ prev.registers[4].type = TYPE_NULL
    /\ SameValue(vm.registers[5], VMInt(0, 0))

\* repr.ext.null $6, $4 has completed with an Ext in slot 4: slot 6 holds
\* Null
C31_WitnessExt ==
    /\ ReprStep
    /\ ~thrown
    /\ lastInstr = repr(TYPE_EXT, TYPE_NULL, 6, 4)
    /\ prev.registers[4].type = TYPE_EXT
    /\ vm.registers[6].type = TYPE_NULL

\* repr.int.int $8, $4 has faulted with Null in slot 4 and Int 9 in slot 8,
\* which is kept
C31_WitnessFault ==
    /\ ReprStep
    /\ thrown
    /\ lastInstr = repr(TYPE_INT, TYPE_INT, 8, 4)
    /\ prev.registers[4].type = TYPE_NULL
    /\ SameValue(vm.registers[8], VMInt(9, 0))

(***************************************************************************)
(* C32.  For a num instruction with T clear, the result written to r0 has  *)
(* the tag of X (and the region of X when X is a Ptr) whatever the tag of  *)
(* Y, with Int and Ptr results wrapped to 32 bits; a Ptr X is accepted     *)
(* only for add/sub with Y an Int or a Ptr, a Ptr Y with a non-Ptr X       *)
(* faults, add/sub with T set and a Ptr X faults, and the bitwise          *)
(* operations fault unless both operands are Int.                          *)
(***************************************************************************)
\* the last step dispatched a num instruction
NumStep == Stepped /\ ~fetch(prev).err /\ lastD.class = INSTR_CLASS_NUM

\* the value is a 32-bit cell
InInt32(value) == MinInt32 <= value /\ value <= MaxInt32

\* the Value res is the result of a num with T clear on x and y: the tag and
\* the region of x, a 32-bit cell for an Int or a Ptr, and the wrapped sum
\* or difference for add/sub of Int and Ptr operands
NumResultOfX(res, x, y) ==
    /\ res.type = x.type
    /\ x.type = TYPE_PTR => res.memory = x.memory
    /\ x.type \in {TYPE_INT, TYPE_PTR} => InInt32(res.value)
    /\ (lastD.c0 = 0 /\ x.type \in {TYPE_INT, TYPE_PTR} /\ y.type \in {TYPE_INT, TYPE_PTR})
           => res.value = WrapAdd(x.value, y.value)
    /\ (lastD.c0 = 1 /\ x.type \in {TYPE_INT, TYPE_PTR} /\ y.type \in {TYPE_INT, TYPE_PTR})
           => res.value = WrapSub(x.value, y.value)

\* the operand types the claim says fault
NumFaultsOn(x, y) ==
    \/ x.type = TYPE_PTR /\ ~(lastD.c0 < 2 /\ y.type \in {TYPE_INT, TYPE_PTR})
    \/ y.type = TYPE_PTR /\ x.type # TYPE_PTR
    \/ lastD.c0 < 2 /\ lastD.s = 1 /\ x.type = TYPE_PTR
    \/ lastD.c0 > 4 /\ ~(x.type = TYPE_INT /\ y.type = TYPE_INT)

C32_WitnessPtr ==
    /\ NumStep
    /\ ~thrown
    /\ lastInstr = num(0, 0, 6, 4, 5)
    /\ SameValue(prev.registers[4], VMPtr("memory", -1, 0))
    /\ SameValue(vm.registers[6], VMPtr("memory", 1, 0))

\* sub of the IRSP Ptr and a stack Ptr has completed with a Ptr into the
\* IRS in slot 7
C32_WitnessRegion ==
    /\ NumStep
    /\ ~thrown
    /\ lastInstr = num(1, 0, 7, REG_IRSP, 6)
    /\ prev.registers[6].type = TYPE_PTR
    /\ prev.registers[6].memory = "stack"
    /\ vm.registers[7].type = TYPE_PTR
    /\ vm.registers[7].memory = "irs"

\* add of Int 1 and the SP Ptr has faulted
C32_WitnessFault ==
    /\ NumStep
    /\ thrown
    /\ lastInstr = num(0, 0, 6, 4, REG_SP)
    /\ SameValue(prev.registers[4], VMInt(1, 0))

(***************************************************************************)
(* C33.  In every word the assembler emits, each template position marked  *)
(* `?` carries the bit found at the same position of the previously        *)
(* emitted word (the substrate), for ordinary mnemonics as well as for     *)
(* ipush.                                                                  *)
(***************************************************************************)
\* the digits of word at the `?` positions of the encoding are those of the
\* word under
OnSubstrate(encoding, word, under) ==
    \A j \in 1..32 : encoding[j] = "?" => DigitAt(word, j) = DigitAt(under, j)

\* assemble() was called on the first line followed by the second
SubstratePair(first, second) ==
    /\ asm.stage # "source"
    /\ asm.code = first \o EncodeLine(second.mnemonic, second.vals)

\* the two words were emitted, the second on the substrate under(first word)
SecondOnSubstrate(second, under(_)) ==
    /\ ~asm.a.err
    /\ Len(asm.a.textObj.data) = 2
    /\ OnSubstrate(OPS[second.mnemonic].encoding, asm.a.textObj.data[2],
                   under(asm.a.textObj.data[1]))

\* the word of an accepted ipush is on the substrate under(a), a being the
\* assembler after the text before the line
IpushOnSubstrate(before, under(_)) ==
    LET on(a) ==
            /\ ~a.err
            /\ ~asm.a.err
            /\ asm.a.textObj.data # <<>>
            /\ OnSubstrate(OPS["ipush"].encoding,
                           asm.a.textObj.data[Len(asm.a.textObj.data)], under(a))
    IN  on(assemble(before, <<0, 0>>))

C33_WitnessIpush ==
    /\ IpushAfter(Instr("push.i", <<Imm(1)>>) \o Instr("push.r", <<Reg(4)>>), 1)
    /\ asm.stage = "assembled"
    /\ asm.a.textObj.data = <<push_i(1), withS(push_r(4), 1)>>

(***************************************************************************)
(* C34.  A sys instruction sets stopped to true exactly when bit 2 of c0   *)
(* (bit 26 of the word) is set; with that bit clear the instruction only   *)
(* prints and leaves stopped false; in both cases the exit value, the      *)
(* registers, the stacks and the memories are unchanged.                   *)
(***************************************************************************)
\* the last step dispatched a sys instruction
SysStep == Stepped /\ ~fetch(prev).err /\ lastD.class = INSTR_CLASS_SYS

\* the exit value, the registers but PC, the stacks and the memories are
\* those of the machine base
SysFrame(base) ==
    /\ vm.exitValue = base.exitValue
    /\ \A i \in (0..(NUM_REGISTERS - 1)) \ {REG_PC} :
           SameValue(vm.registers[i], base.registers[i])
    /\ vm.stack = base.stack
    /\ vm.callStack = base.callStack
    /\ vm.csp = base.csp
    /\ vm.irs = base.irs
    /\ vm.memory = base.memory

\* C34: after a completed sys instruction stopped follows bit 26 and
\* nothing else changes
C34_SysStopsOnC0 ==
    (SysStep /\ ~thrown)
        => /\ vm.stopped = And(lastD.c0, 4)
           /\ SysFrame(prev)

\* what the code does: stopped follows S, bit 27 of the word, as in the
\* encodings 11110??0 dbg, 11110??1 dbgp and 11111??? break, and bit 26 is
\* ignored; dbgp reads the register r0 as every operand is read, so that
\* naming slot 27, 28 or 31 pops, or faults on an empty stack; everything
\* else is kept
C34_SysStopsOnS ==
    LET isDbgp == lastD.s = 0 /\ And(lastD.c0, 1)
        after(base) ==
            /\ thrown = base.err
            /\ vm.stopped = (lastD.s = 1)
            /\ SysFrame(base)
        printed(g) == after(g.m)
    IN  SysStep => IF isDbgp THEN printed(get(prev, lastD.r0)) ELSE after(prev)

\* the word 0xF4000000 (class sys, bit 26 set, bit 27 clear) has completed
\* and the machine is not stopped
C34_Witness ==
    /\ SysStep
    /\ ~thrown
    /\ lastInstr = WordA(INSTR_CLASS_SYS, 0, 4, 0, 0, 0)
    /\ ~vm.stopped
    /\ vm.cycles = prev.cycles + 1

\* break has completed and the machine is stopped
C34_WitnessBreak ==
    /\ SysStep
    /\ ~thrown
    /\ lastInstr = break
    /\ vm.stopped
    /\ ~prev.stopped

\* dbgp $POP has completed after push.i 3: SP is back at 0
C34_WitnessPop ==
    /\ SysStep
    /\ ~thrown
    /\ lastInstr = dbgp(REG_POP)
    /\ prev.registers[REG_SP].value = 1
    /\ vm.registers[REG_SP].value = 0

(***************************************************************************)
(* C35.  In every reachable state, a data-stack push or pop (push and pop  *)
(* instructions, writes to slot 30, reads of slot 31, the argument and     *)
(* result traffic of an external call) changes only data-stack cells, SP   *)
(* and slot 30: no cell of word memory, of the IRS or of the call stack is *)
(* changed by it.                                                          *)
(***************************************************************************)
\* the cells of word memory, of the IRS and of the call stack of m1 are
\* those of m
OtherCellsKept(m, m1) ==
    /\ m1.memory = m.memory
    /\ m1.irs = m.irs
    /\ m1.callStack = m.callStack

\* a push or a pop made in the present state, by stackPush, by a write to
\* slot 30, by stackPop or by a read of slot 31, keeps the other cells
StackTrafficKept ==
    /\ \A v \in StackValues(vm) :
           /\ OtherCellsKept(vm, stackPush(vm, v))
           /\ OtherCellsKept(vm, set(vm, REG_PUSH, v))
    /\ OtherCellsKept(vm, stackPop(vm).m)
    /\ OtherCellsKept(vm, get(vm, REG_POP).m)

\* the last step dispatched a push or pop instruction without S, or an
\* external call without S
StackInstruction ==
    /\ Stepped
    /\ ~fetch(prev).err
    /\ lastD.s = 0
    /\ \/ lastD.class \in {INSTR_CLASS_PUSH, INSTR_CLASS_POP}
       \/ ExternalCall

\* C35: the other cells are kept by every push and pop
C35_StackTraffic ==
    /\ StackTrafficKept
    /\ StackInstruction => OtherCellsKept(prev, vm)

\* what the code does: the other cells are kept by every pop, and by every
\* push made while SP is a Ptr into the data stack
C35_StackTrafficInStack ==
    /\ vm.registers[REG_SP].memory = "stack" => StackTrafficKept
    /\ OtherCellsKept(vm, stackPop(vm).m)
    /\ OtherCellsKept(vm, get(vm, REG_POP).m)
    /\ (StackInstruction /\ prev.registers[REG_SP].memory = "stack")
           => OtherCellsKept(prev, vm)

\* push.i 1 has completed with SP at word 0 of the program: the word of
\* cvt.ptr.i $29, 0 is now 0 and the data stack is empty
C35_Witness ==
    /\ Completed
    /\ lastInstr = push_i(1)
    /\ SameValue(prev.registers[REG_SP], VMPtr("memory", 0, 0))
    /\ IntLoad(prev.memory, 0) = cvt_i(TYPE_PTR, REG_SP, 0)
    /\ IntLoad(vm.memory, 0) = 0
    /\ vm.stack = EmptyRegion

\* push.i 1 has completed with SP at cell 0 of the IRS, which held 5 and
\* now holds 0
C35_WitnessIrs ==
    /\ Completed
    /\ lastInstr = push_i(1)
    /\ SameValue(prev.registers[REG_SP], VMPtr("irs", 0, 0))
    /\ IntLoad(prev.irs, 0) = 5
    /\ IntLoad(vm.irs, 0) = 0

(***************************************************************************)
(* C36.  Once stopped is true (after exit or break), every further step()  *)
(* executes no instruction and leaves PC, all registers, the stacks, the   *)
(* memories, the cycle count and the exit value unchanged; no sequence of  *)
(* step and run calls makes stopped false again, only reset or loadProgram *)
(* does (a breakpoint cannot be resumed).                                  *)
(***************************************************************************)
\* C36: a call of step() or of run() on a stopped machine, and the return
\* of run(), leave the whole machine as it is, stopped included
C36_StoppedStays ==
    [][(vm.stopped /\ (steps' = steps + 1 \/ lastOp' = "run"))
           => (vm' = vm /\ vm'.stopped)]_vars

\* step() was called after break had stopped the machine: PC is still at
\* the word after the break, nothing was counted and there is no exit value
C36_Witness ==
    /\ lastOp = "step"
    /\ prev.stopped
    /\ vm.stopped
    /\ vm = prev
    /\ Offset(vm, REG_PC) > 0
    /\ IntLoad(vm.memory, Offset(vm, REG_PC) - 1) = break
    /\ vm.exitValue = ExitUndefined

\* step() and then run() were called after exit.i 3 had stopped the
\* machine: run() has returned at once with the exit value
C36_WitnessRun ==
    /\ lastOp = "run"
    /\ ~running
    /\ vm.stopped
    /\ vm = prev
    /\ vm.exitValue = ExitNumber(3)
    /\ returned = vm.exitValue

(***************************************************************************)
(* C37.  The internal branching flag is false at every step boundary,      *)
(* including after a step that faulted (for example when the trailing      *)
(* S-flag IRS push of a taken register branch or of ret overflows a full   *)
(* IRS), so that a non-branching instruction executed by the next step     *)
(* always advances PC.                                                     *)
(***************************************************************************)
\* C37: between the calls of the machine the flag is clear
C37_FlagClear == ~vm.branching

\* what the code does: the flag is clear after a load and after every step
\* that completes; a step that begins with the flag clear and throws leaves
\* it set only when the instruction is a ret or a branch in register mode
\* with S set, the throw being that of the trailing IRS push
C37_FlagClearWhenCompleted ==
    /\ lastOp = "loadProgram" => ~vm.branching
    /\ Completed => ~vm.branching
    /\ (Stepped /\ thrown /\ ~prev.branching /\ ~fetch(prev).err)
           => (vm.branching
                  => /\ lastD.s = 1
                     /\ \/ lastD.class = INSTR_CLASS_RET
                        \/ lastD.class = INSTR_CLASS_B /\ And(lastD.c0, 1)
                     /\ irsPush(prev, lastD.immSigned).err)

\* ret with S has thrown in its trailing IRS push, IRSP being out of the
\* IRS: PC is at the return address and the flag is set
C37_Witness ==
    /\ Stepped
    /\ thrown
    /\ ~prev.branching
    /\ lastD.class = INSTR_CLASS_RET
    /\ lastD.s = 1
    /\ vm.csp = prev.csp - 1
    /\ vm.branching

\* a register branch with S has thrown in its trailing IRS push and the
\* flag is set
C37_WitnessBranch ==
    /\ Stepped
    /\ thrown
    /\ ~prev.branching
    /\ lastD.class = INSTR_CLASS_B
    /\ lastD.s = 1
    /\ vm.branching

(***************************************************************************)
(* C38.  A pop that faults on an empty stack has already decremented its   *)
(* pointer: after a data-stack pop at SP offset 0 the SP register holds    *)
(* offset 2^32 - 1 (likewise IRSP after an IRS pop at offset 0, and CSP    *)
(* after ret on an empty call stack), whereas a push that faults on a full *)
(* stack (offset 2^16) leaves its pointer and all cells unchanged.         *)
(***************************************************************************)
\* the machine m1 is m but for the register of the slot, which holds the
\* Ptr into the region at the cell -1, whose unsigned reading is 2^32 - 1
PointerBelowZero(m, m1, slot) ==
    /\ m1.err
    /\ SameValue(m1.registers[slot], VMPtr(RegionOf(slot), -1, 0))
    /\ \A i \in (0..(NUM_REGISTERS - 1)) \ {slot} : m1.registers[i] = m.registers[i]
    /\ m1.stack = m.stack
    /\ m1.irs = m.irs
    /\ m1.callStack = m.callStack
    /\ m1.memory = m.memory
    /\ m1.csp = m.csp

\* the pops of the present state, when the pointer is at offset 0
EmptyPops ==
    /\ Offset(vm, REG_SP) = 0
           => /\ PointerBelowZero(vm, stackPop(vm).m, REG_SP)
              /\ PointerBelowZero(vm, get(vm, REG_POP).m, REG_SP)
    /\ Offset(vm, REG_IRSP) = 0
           => /\ PointerBelowZero(vm, irsPop(vm).m, REG_IRSP)
              /\ PointerBelowZero(vm, get(vm, REG_IPOP).m, REG_IRSP)
              /\ PointerBelowZero(vm, get(vm, REG_IPTR).m, REG_IRSP)
    /\ vm.csp = 0 => callStackPop(vm) = Throw([vm EXCEPT !.csp = -1])

\* the machine with the pointer of the slot at the size of its region, and
\* with CSP at the size of the call stack
FullAt(slot) ==
    [vm EXCEPT !.registers[slot] = VMPtr(RegionOf(slot), RegionSize(RegionOf(slot)), 0)]
FullCallStack == [vm EXCEPT !.csp = CALL_STACK_SIZE]

\* the pushes on a full stack throw and change nothing
FullPushes ==
    /\ \A v \in StackValues(vm) :
           /\ stackPush(FullAt(REG_SP), v) = Throw(FullAt(REG_SP))
           /\ set(FullAt(REG_SP), REG_PUSH, v) = Throw(FullAt(REG_SP))
    /\ \A n \in {-1, 0, 5} : irsPush(FullAt(REG_IRSP), n) = Throw(FullAt(REG_IRSP))
    /\ callStackPush(FullCallStack) = Throw(FullCallStack)

\* the last step dispatched a pop, ipop or ret with the pointer at offset
\* 0, or a push.i with SP at the size of the data stack
PopStepAtZero(slot) ==
    /\ Stepped
    /\ ~fetch(prev).err
    /\ lastD.class = INSTR_CLASS_POP
    /\ And(lastD.c0, 1) = (slot = REG_IRSP)
    /\ Offset(prev, slot) = 0
PushStepAtFull ==
    /\ Stepped
    /\ ~fetch(prev).err
    /\ lastD.class = INSTR_CLASS_PUSH
    /\ And(lastD.c0, 1) => lastD.r0 \in 3..25
    /\ prev.registers[REG_SP].memory = "stack"
    /\ Offset(prev, REG_SP) = STACK_SIZE

\* the last step dispatched a nop with the S bit (ipush) with IRSP at the
\* size of the IRS
IpushStepAtFull ==
    /\ Stepped
    /\ ~fetch(prev).err
    /\ lastD.class = INSTR_CLASS_NOP
    /\ lastD.s = 1
    /\ prev.registers[REG_IRSP].memory = "irs"
    /\ Offset(prev, REG_IRSP) = IRS_SIZE

\* the machine is as it was before the step, but for the count of the
\* objects created (the Int of the immediate was created before the push)
UnchangedButIds == vm = [prev EXCEPT !.nextId = vm.nextId]

C38_PopDecrementsPushKeeps ==
    /\ EmptyPops
    /\ FullPushes
    /\ \A slot \in {REG_SP, REG_IRSP} :
           PopStepAtZero(slot)
               => /\ thrown
                  /\ PointerBelowZero(prev, [vm EXCEPT !.err = TRUE], slot)
    /\ (Stepped /\ ~fetch(prev).err /\ lastD.class = INSTR_CLASS_RET /\ prev.csp = 0)
           => (thrown /\ vm = [prev EXCEPT !.csp = -1])
    /\ (PushStepAtFull \/ IpushStepAtFull) => (thrown /\ UnchangedButIds)

\* pop $4 has thrown on the empty data stack: SP is the Ptr into the data
\* stack at the cell -1
C38_Witness ==
    /\ PopStepAtZero(REG_SP)
    /\ thrown
    /\ lastInstr = pop(4)
    /\ SameValue(prev.registers[REG_SP], VMPtr("stack", 0, 0))
    /\ SameValue(vm.registers[REG_SP], VMPtr("stack", -1, 0))

\* ret has thrown on the empty call stack: CSP is -1
C38_WitnessRet ==
    /\ Stepped
    /\ thrown
    /\ lastD.class = INSTR_CLASS_RET
    /\ prev.csp = 0
    /\ vm.csp = -1

\* push.i 1 has thrown with SP at cell 65536 of the data stack: nothing has
\* changed
C38_WitnessFull ==
    /\ PushStepAtFull
    /\ thrown
    /\ lastInstr = push_i(1)
    /\ UnchangedButIds
    /\ SameValue(vm.registers[REG_SP], VMPtr("stack", STACK_SIZE, 0))

\* ipush 5 has thrown with IRSP at cell 65536 of the IRS: nothing has
\* changed
C38_WitnessIrsFull ==
    /\ IpushStepAtFull
    /\ thrown
    /\ lastInstr = ipush(5)
    /\ vm.irs = prev.irs
    /\ SameValue(vm.registers[REG_IRSP], VMPtr("irs", IRS_SIZE, 0))

(***************************************************************************)
(* C39.  In every reachable state the cycle counter equals the number of   *)
(* instructions that completed without a fault since the last reset: the   *)
(* counter is 0 after construction and after every loadProgram, a step     *)
(* whose instruction faults (in the fetch, in the handler or in the        *)
(* trailing IRS push) and a step taken while stopped leave it unchanged,   *)
(* every other step increases it by exactly one, and no other call changes *)
(* it.                                                                     *)
(***************************************************************************)
\* what a call of the API does to the counter
CyclesCounted ==
    /\ lastOp' = "loadProgram" => vm'.cycles = 0
    /\ steps' = steps + 1
           => vm'.cycles = vm.cycles + (IF vm.stopped \/ thrown' THEN 0 ELSE 1)
    /\ (lastOp' # "loadProgram" /\ steps' = steps) => vm'.cycles = vm.cycles

C39_CyclesCountCompleted == (vm.cycles = 0) /\ [][CyclesCounted]_vars

\* the counter never exceeds the number of the calls of step()
C39_CyclesWithinSteps == vm.cycles \in 0..steps

\* the third step has thrown in its handler after two steps that completed:
\* the counter is still 2
C39_Witness ==
    /\ Stepped
    /\ thrown
    /\ steps = 3
    /\ ~fetch(prev).err
    /\ lastD.class \in INSTR_CLASS_EXECS
    /\ handler(prev, lastD, HostNull).m.err
    /\ prev.cycles = 2
    /\ vm.cycles = 2

\* a step has thrown in the IRS push of its S flag after its handler
\* returned: the counter is as before
C39_WitnessIrs ==
    /\ Stepped
    /\ thrown
    /\ ~fetch(prev).err
    /\ lastD.s = 1
    /\ lastD.class \in INSTR_CLASS_EXECS
    /\ ~handler(prev, lastD, HostNull).m.err
    /\ prev.cycles > 0
    /\ vm.cycles = prev.cycles

\* a step of the stopped machine has left the counter where the exit
\* instruction, which counted, had left it
C39_WitnessStopped ==
    /\ lastOp = "step"
    /\ prev.stopped
    /\ vm.cycles = prev.cycles
    /\ vm.cycles > 0

\* every step up to here has completed: the counter is the number of steps
C39_WitnessCounted ==
    /\ Completed
    /\ steps = 4
    /\ vm.cycles = 4
    /\ prev.cycles = 3

(***************************************************************************)
(* C40.  Within one instruction register operands are read in a fixed      *)
(* order - num: X (r1) then Y (r2); cmp: r0 then r2; mem: pointer r1, then *)
(* offset r2, then for write r0; env: key r1, then base r2, then for set   *)
(* r0 - so an instruction naming a popping slot (31, 27 or 28) for several *)
(* operands pops once per operand in that order: sub $5, $POP, $POP        *)
(* computes (old top) - (old second) and lowers SP by two.                 *)
(***************************************************************************)
\* the slots the handler of d reads, in the order of the claim
OperandOrder(d) ==
    CASE d.class = INSTR_CLASS_NUM -> <<d.r1, d.r2>>
      [] d.class = INSTR_CLASS_CMP ->
             <<d.r0>> \o (IF And(d.c1, 1) /\ d.c0 \notin {3, 7} THEN <<d.r2>> ELSE <<>>)
      [] d.class = INSTR_CLASS_MEM ->
             <<d.r1, d.r2>> \o (IF d.s = 1 THEN <<d.r0>> ELSE <<>>)
      [] d.class = INSTR_CLASS_ENV ->
             <<d.r1>> \o (IF And(d.c0, 1) THEN <<d.r2>> ELSE <<>>)
                     \o (IF d.s = 1 THEN <<d.r0>> ELSE <<>>)
      [] OTHER -> <<>>

\* the slots that pop the data stack and the IRS
DataPops == {REG_POP}
IrsPops == {REG_IPOP, REG_IPTR}

\* how many of the first i operands pop the stack of the slots in pops
PopsUpTo(order, i, pops) == Cardinality({j \in 1..i : order[j] \in pops})

\* the Value the i-th operand receives when each operand pops once, in the
\* order of the claim: the k-th popping operand of a stack gets the k-th
\* cell from its top
OperandValue(m, order, i) ==
    LET cell(slot, pops) == Offset(m, slot) - PopsUpTo(order, i, pops)
    IN  CASE order[i] = REG_POP -> StackLoad(m, cell(REG_SP, DataPops))
          [] order[i] = REG_IPOP -> VMInt(IntLoad(m.irs, cell(REG_IRSP, IrsPops)), 0)
          [] order[i] = REG_IPTR ->
                 VMPtr("memory", IntLoad(m.irs, cell(REG_IRSP, IrsPops)), 0)
          [] OTHER -> m.registers[order[i]]

\* the slot the handler of d writes its result to, 0 when it writes none
Destination(d) ==
    CASE d.class = INSTR_CLASS_NUM -> d.r0
      [] d.class = INSTR_CLASS_CMP -> IF And(d.c1, 1) THEN d.r1 ELSE REG_COMP
      [] d.class \in {INSTR_CLASS_MEM, INSTR_CLASS_ENV} -> IF d.s = 1 THEN REG_ZERO ELSE d.r0
      [] OTHER -> REG_ZERO

\* the last step completed an instruction of the four classes that names a
\* popping slot, with both stack pointers in their own regions
OrderedStep ==
    /\ Completed
    /\ ~fetch(prev).err
    /\ lastD.class \in {INSTR_CLASS_NUM, INSTR_CLASS_CMP, INSTR_CLASS_MEM, INSTR_CLASS_ENV}
    /\ \E i \in 1..Len(OperandOrder(lastD)) : OperandOrder(lastD)[i] \in DataPops \cup IrsPops
    /\ prev.registers[REG_SP].memory = "stack"
    /\ prev.registers[REG_IRSP].memory = "irs"
    /\ Destination(lastD) \in {REG_ZERO, REG_COMP} \cup 3..25

\* the pointers are lower by the number of the operands that pop
PoppedOncePerOperand(order) ==
    /\ Offset(vm, REG_SP) = Offset(prev, REG_SP) - PopsUpTo(order, Len(order), DataPops)
    /\ Offset(vm, REG_IRSP) = Offset(prev, REG_IRSP) - PopsUpTo(order, Len(order), IrsPops)
    /\ vm.registers[REG_SP].memory = "stack"
    /\ vm.registers[REG_IRSP].memory = "irs"

\* the result of the instruction is the one of the operands in this order
ResultOfOrder(d, order) ==
    LET v(i) == OperandValue(prev, order, i)
        dest == vm.registers[Destination(d)]
        key == KeyString(getValueOrString(prev, v(1)).h)
        base == IF And(d.c0, 1) THEN v(2).ext ELSE HostNull
        stored == v(Len(order))
        found(val) ==
            /\ ~val.err
            /\ val.h.kind \in {"null", "undefined"} <=> dest.type = TYPE_NULL
            /\ (dest.type # TYPE_NULL /\ And(d.c0, 2)) => dest.ext = val.h
        kept(m1) == vm.env = m1.env /\ vm.props = m1.props
    IN  CASE d.class = INSTR_CLASS_NUM ->
                 SameValue(dest, numResult(d.c0, d.s, v(1), v(2), 0))
          [] d.class = INSTR_CLASS_CMP ->
                 (Len(order) = 2 /\ d.c0 # 4)
                     => dest.value = cmpResult(d.c0, v(1), v(2), v(1).type = TYPE_PTR, FALSE)
          [] d.class = INSTR_CLASS_MEM ->
                 IF d.s = 1
                 THEN vm.memory = IntStore(prev.memory, memAddr(v(1), v(2)), stored.value)
                 ELSE SameValue(dest, reinterpret(VMInt(IntLoad(prev.memory,
                                                                memAddr(v(1), v(2))), 0),
                                                  d.c0, 0).v)
          [] d.class = INSTR_CLASS_ENV ->
                 IF d.s = 1
                 THEN kept(setEnvironment(prev, key, getValueOrString(prev, stored).h, base))
                 ELSE found(getEnvironment(prev, key, base))

C40_OperandOrder ==
    OrderedStep
        => /\ PoppedOncePerOperand(OperandOrder(lastD))
           /\ ResultOfOrder(lastD, OperandOrder(lastD))

\* sub $5, $POP, $POP on the stack 7, 2 (2 on top) has left 2 - 7 in $5 and
\* SP two cells lower
C40_Witness ==
    /\ OrderedStep
    /\ lastInstr = num(1, 0, 5, REG_POP, REG_POP)
    /\ Offset(prev, REG_SP) = 2
    /\ StackLoad(prev, 1).value = 2
    /\ StackLoad(prev, 0).value = 7
    /\ SameValue(vm.registers[5], VMInt(-5, 0))
    /\ Offset(vm, REG_SP) = 0

\* write $POP, $POP, $POP on the stack 5, 1, Ptr 9 (the Ptr on top) has
\* stored 5 at cell 10
C40_WitnessWrite ==
    /\ OrderedStep
    /\ lastInstr = write(REG_POP, REG_POP, REG_POP)
    /\ Offset(prev, REG_SP) = 3
    /\ IntLoad(vm.memory, 10) = 5
    /\ Offset(vm, REG_SP) = 0

\* c.cmp.r $4, $POP, $POP on the stack 7, 2 has compared 2 with 7
C40_WitnessCmp ==
    /\ OrderedStep
    /\ lastInstr = c_r(0, 4, REG_POP, REG_POP)
    /\ vm.registers[4].value = -1
    /\ Offset(vm, REG_SP) = 0

\* a property set with three popping operands has taken the key from the
\* top, the base below it and the value below that
C40_WitnessEnv ==
    /\ OrderedStep
    /\ lastD.class = INSTR_CLASS_ENV
    /\ lastD.s = 1
    /\ Len(OperandOrder(lastD)) = 3
    /\ Offset(prev, REG_SP) = 3
    /\ vm.props # prev.props
    /\ Offset(vm, REG_SP) = 0

\* a property get with two popping operands
C40_WitnessGet ==
    /\ OrderedStep
    /\ lastInstr = loadp(6, REG_POP, REG_POP)
    /\ Offset(vm, REG_SP) = 0

\* add $4, $IPTR, $IPOP on the IRS 1, 2 has left the Ptr 2 + 1
C40_WitnessIrs ==
    /\ OrderedStep
    /\ lastInstr = num(0, 0, 4, REG_IPTR, REG_IPOP)
    /\ SameValue(vm.registers[4], VMPtr("memory", 3, 0))
    /\ Offset(vm, REG_IRSP) = 0

====
